---- MODULE Spec2Model ----
(***************************************************************************)
(* Model of the CSV-to-analytics pipeline of chart_js: numeric coercion,   *)
(* date disambiguation, row normalisation, aggregation and analytics, as   *)
(* implemented in src/app.js, src/public/script.js and the two unnamed     *)
(* variants.                                                               *)
(*                                                                         *)
(* Text is a sequence of one-character strings.  A JavaScript number is a  *)
(* record [k, n, d]: k = "fin" is the exact rational n/d (d > 0, reduced), *)
(* k = "inf" is +Infinity (n = 1) or -Infinity (n = -1), k = "nan" is NaN. *)
(* A Date is its time value counted in hours since the epoch, or NaN for   *)
(* an Invalid Date; the host's time zone is taken to be UTC.               *)
(***************************************************************************)
EXTENDS Integers, Sequences, FiniteSets, TLC

VARIABLES
    numText,   \* the text handed to parseNumber
    numOut,    \* what the call returned
    numPc,     \* "call" before the call, then the name of the function called
    dateParse, \* the platform's Date.parse: its answer for each text it may be given
    dateNow,   \* the clock: what new Date() gives
    dateText,  \* the text handed to parseDate
    dateOut,   \* what the call returned
    datePc,    \* "call" before the call, then "server" or "client"
    rawRow,    \* one parsed CSV row: its <<column name, cell>> pairs in header order
    normOut,   \* the record the normalizer made of it
    normPc,    \* "row" before the row is handled, then the normalizer that handled it
    anaData,   \* the argument of calculateAnalytics
    anaOut,    \* the analytics it returned
    anaPc,     \* "call" before the call, "done" after it
    upSide,    \* the program an upload is given to: "server" or "client"
    upFile,    \* the uploaded file: its header line and its rows
    upPos,     \* the number of rows the CSV stream has emitted
    upPc,      \* "request", "streaming", then "ended", "failed" or "rejected"
    tempFile,  \* the uploaded file is on the server's disk
    unlinks,   \* the number of times the server has called fs.unlink on it
    results,   \* the server's results array
    hasErrors, \* the server's hasErrors flag
    errorMessages, \* the server's errorMessages array
    responses, \* the responses the server has sent, in order
    salesData, \* the client's parsed rows
    alerts,    \* the client's alerts, in order
    charts,    \* the charts the client has drawn, in order
    summary,   \* the client's analytics summary
    mvData,    \* the argument of performAnalytics: the sales the server answered
    mvOut,     \* what performAnalytics returned
    mvPc,      \* "call" before the call, "done" after it
    uploads,   \* the server's uploads directory: the rows of the file at each path
    requests   \* the /upload requests in flight at once, each with its own closure

numVars == <<numText, numOut, numPc>>

envVars == <<dateParse, dateNow>>

dateVars == <<dateText, dateOut, datePc>>

normVars == <<rawRow, normOut, normPc>>

anaVars == <<anaData, anaOut, anaPc>>

upVars ==
    <<upSide, upFile, upPos, upPc, tempFile, unlinks, results, hasErrors,
      errorMessages, responses, salesData, alerts, charts, summary>>

mvVars == <<mvData, mvOut, mvPc>>

ccVars == <<uploads, requests>>

vars == <<envVars, numVars, dateVars, normVars, anaVars, upVars, mvVars, ccVars>>

----------------------------------------------------------------------------
(* Characters and text *)

Digits == <<"0", "1", "2", "3", "4", "5", "6", "7", "8", "9">>

IsDigit(c) == \E i \in 1..10 : Digits[i] = c

DigitVal(c) == (CHOOSE i \in 1..10 : Digits[i] = c) - 1

\* String.prototype.trim's white space, as far as the inputs use it
WhiteSpace == {" ", "\t"}

Upper == <<"A", "B", "C", "D", "E", "F", "G", "H", "I", "J", "K", "L", "M",
           "N", "O", "P", "Q", "R", "S", "T", "U", "V", "W", "X", "Y", "Z">>

Lower == <<"a", "b", "c", "d", "e", "f", "g", "h", "i", "j", "k", "l", "m",
           "n", "o", "p", "q", "r", "s", "t", "u", "v", "w", "x", "y", "z">>

LowerChar(c) ==
    IF \E i \in 1..26 : Upper[i] = c
    THEN Lower[CHOOSE i \in 1..26 : Upper[i] = c]
    ELSE c

\* String.prototype.toLowerCase
ToLowerCase(s) == [i \in 1..Len(s) |-> LowerChar(s[i])]

\* String.prototype.trim
Trim(s) ==
    LET keep == {i \in 1..Len(s) : s[i] \notin WhiteSpace}
    IN  IF keep = {} THEN <<>>
        ELSE SubSeq(s, CHOOSE i \in keep : \A j \in keep : i <= j,
                       CHOOSE i \in keep : \A j \in keep : i >= j)

\* s.replace(/[$,]/g, '')
StripCurrency(s) == SelectSeq(s, LAMBDA c : c \notin {"$", ","})

\* the text from position i on
From(s, i) == SubSeq(s, i, Len(s))

StartsWith(s, p) == Len(s) >= Len(p) /\ SubSeq(s, 1, Len(p)) = p

\* the length of the run of digits that starts at position i
RunLen(s, i) ==
    CHOOSE k \in 0..(Len(s) + 1 - i) :
        /\ \A j \in i..(i + k - 1) : IsDigit(s[j])
        /\ (i + k > Len(s) \/ ~IsDigit(s[i + k]))

RECURSIVE DigitsValue(_)
\* the number a run of decimal digits denotes
DigitsValue(s) ==
    IF s = <<>> THEN 0
    ELSE 10 * DigitsValue(SubSeq(s, 1, Len(s) - 1)) + DigitVal(s[Len(s)])

RECURSIVE IntToText(_)
\* the decimal digits of a natural number
IntToText(n) ==
    IF n < 10 THEN <<Digits[n + 1]>>
    ELSE Append(IntToText(n \div 10), Digits[(n % 10) + 1])

RECURSIVE Pad(_, _)
\* the digits of n, with zeros in front up to width w
Pad(n, w) ==
    IF Len(IntToText(n)) >= w THEN IntToText(n)
    ELSE <<"0">> \o Pad(n, w - 1)

RECURSIVE Pow10(_)
Pow10(e) == IF e = 0 THEN 1 ELSE 10 * Pow10(e - 1)

----------------------------------------------------------------------------
(* JavaScript numbers *)

RECURSIVE Gcd(_, _)
Gcd(a, b) == IF b = 0 THEN a ELSE Gcd(b, a % b)

Abs(x) == IF x < 0 THEN -x ELSE x

NaN == [k |-> "nan", n |-> 0, d |-> 1]

PosInf == [k |-> "inf", n |-> 1, d |-> 1]

NegInf == [k |-> "inf", n |-> -1, d |-> 1]

\* the rational n/d, d # 0, in lowest terms with a positive denominator
Rat(n, d) ==
    LET g == Gcd(Abs(n), Abs(d))
        s == IF d < 0 THEN -1 ELSE 1
    IN  [k |-> "fin", n |-> s * (n \div g), d |-> s * (d \div g)]

Zero == Rat(0, 1)

IsNaN(x) == x.k = "nan"

\* Math.abs
MathAbs(x) == IF x.k = "nan" THEN NaN ELSE [x EXCEPT !.n = Abs(x.n)]

\* x >= 0 (false for NaN, as every comparison with NaN is)
NonNegative(x) == x.k # "nan" /\ x.n >= 0

\* x < y and x > y of the language: false as soon as one side is NaN
NumLess(x, y) ==
    /\ x.k # "nan" /\ y.k # "nan"
    /\ IF x.k = "inf" THEN x.n < 0 /\ y # x
       ELSE IF y.k = "inf" THEN y.n > 0
       ELSE x.n * y.d < y.n * x.d

\* the + of two numbers
NumAdd(x, y) ==
    IF x.k = "nan" \/ y.k = "nan" THEN NaN
    ELSE IF x.k = "inf" /\ y.k = "inf" THEN (IF x.n = y.n THEN x ELSE NaN)
    ELSE IF x.k = "inf" THEN x
    ELSE IF y.k = "inf" THEN y
    ELSE Rat(x.n * y.d + y.n * x.d, x.d * y.d)

\* the / of two numbers (a signed zero is not told apart: x/0 is +-Infinity by
\* the sign of x)
NumDiv(x, y) ==
    IF x.k = "nan" \/ y.k = "nan" THEN NaN
    ELSE IF x.k = "inf" THEN (IF y.k = "inf" THEN NaN
                              ELSE [x EXCEPT !.n = IF y.n < 0 THEN -x.n ELSE x.n])
    ELSE IF y.k = "inf" THEN Zero
    ELSE IF y.n = 0 THEN (IF x.n = 0 THEN NaN
                          ELSE IF x.n > 0 THEN PosInf ELSE NegInf)
    ELSE Rat(x.n * y.d, x.d * y.n)

\* ToBoolean of a number: 0 and NaN are falsy
NumTruthy(x) == x.k # "nan" /\ x.n # 0

----------------------------------------------------------------------------
(* parseFloat and parseInt *)

\* the largest decimal exponent a finite double has; beyond it a literal
\* with a non-zero mantissa reads as Infinity
MaxDoubleExp == 308

InfinityText == <<"I", "n", "f", "i", "n", "i", "t", "y">>

SkipWs(s) ==
    LET keep == {i \in 1..Len(s) : s[i] \notin WhiteSpace}
    IN  IF keep = {} THEN <<>>
        ELSE From(s, CHOOSE i \in keep : \A j \in keep : i <= j)

\* the text after an optional sign, and the sign
Unsigned(t) == IF t # <<>> /\ t[1] \in {"+", "-"} THEN From(t, 2) ELSE t

SignOf(t) == IF t # <<>> /\ t[1] = "-" THEN -1 ELSE 1

Infinite(sg) == IF sg < 0 THEN NegInf ELSE PosInf

\* the value sg * mant * 10^(-fp) * 10^(+-ev) as a double: 0 below the
\* smallest double, an infinity above the largest
Scaled(sg, mant, fp, eNeg, ev) ==
    IF mant = 0 THEN Zero
    ELSE IF eNeg THEN (IF ev > MaxDoubleExp + 16 THEN Zero
                       ELSE Rat(sg * mant, Pow10(fp + ev)))
    ELSE IF ev > MaxDoubleExp THEN Infinite(sg)
    ELSE Rat(sg * mant * Pow10(ev), Pow10(fp))

\* the exponent part: digits from position eAt on, if hasE and there are any
ExponentValue(body, hasE, eAt) ==
    IF hasE /\ RunLen(body, eAt) > 0
    THEN DigitsValue(SubSeq(body, eAt, eAt + RunLen(body, eAt) - 1))
    ELSE 0

\* the literal whose mantissa ends at position mEnd
WithExponent(body, sg, mant, fp, mEnd, hasE) ==
    Scaled(sg, mant, fp,
           hasE /\ Len(body) > mEnd + 1 /\ body[mEnd + 2] = "-",
           ExponentValue(body, hasE,
                         IF hasE /\ Len(body) > mEnd + 1 /\ body[mEnd + 2] \in {"+", "-"}
                         THEN mEnd + 3 ELSE mEnd + 2))

\* the literal with ip integer digits and fp fraction digits
WithFraction(body, sg, ip, fp, mEnd) ==
    IF ip = 0 /\ fp = 0 THEN NaN
    ELSE WithExponent(body, sg,
                      DigitsValue(SubSeq(body, 1, ip)) * Pow10(fp)
                          + DigitsValue(SubSeq(body, ip + 2, ip + 1 + fp)),
                      fp, mEnd,
                      Len(body) > mEnd /\ body[mEnd + 1] \in {"e", "E"})

\* the literal with ip integer digits
WithInteger(body, sg, ip, dot) ==
    WithFraction(body, sg, ip,
                 IF dot THEN RunLen(body, ip + 2) ELSE 0,
                 IF dot /\ (ip > 0 \/ RunLen(body, ip + 2) > 0)
                 THEN ip + 1 + RunLen(body, ip + 2) ELSE ip)

DecimalLiteral(body, sg, ip) ==
    IF StartsWith(body, InfinityText) THEN Infinite(sg)
    ELSE WithInteger(body, sg, ip, Len(body) > ip /\ body[ip + 1] = ".")

StrDecimalLiteral(t) == DecimalLiteral(Unsigned(t), SignOf(t), RunLen(Unsigned(t), 1))

\* the global parseFloat: the longest prefix of the trimmed text that is a
\* decimal literal, NaN when there is none
ParseFloat(str) == StrDecimalLiteral(SkipWs(str))

IntegerLiteral(body, sg, ip) ==
    IF ip = 0 THEN NaN ELSE Rat(sg * DigitsValue(SubSeq(body, 1, ip)), 1)

StrIntegerLiteral(t) == IntegerLiteral(Unsigned(t), SignOf(t), RunLen(Unsigned(t), 1))

\* the global parseInt with the default radix: the leading run of digits
\* after white space and a sign, NaN when there is none
ParseInt(str) == StrIntegerLiteral(SkipWs(str))

----------------------------------------------------------------------------
(* src/app.js : parseNumber *)

\* isNaN(num) ? 0 : num, with Math.abs forgotten
parseNumber_NoAbs(str) ==
    IF IsNaN(ParseFloat(Trim(StripCurrency(str)))) THEN Zero
    ELSE ParseFloat(Trim(StripCurrency(str)))

\* isNaN(num) ? 0 : Math.abs(num)
AbsOrZero(num) == IF IsNaN(num) THEN Zero ELSE MathAbs(num)

parseNumber(str) ==
    IF str = <<>> THEN Zero ELSE AbsOrZero(ParseFloat(Trim(StripCurrency(str))))

----------------------------------------------------------------------------
(* Dates.  A Date object is its time value, a number of hours since the    *)
(* epoch, or NaN (an Invalid Date).                                        *)

HoursPerDay == 24

\* the largest time value a Date holds, in days either side of the epoch
MaxDateDays == 100000000

\* the day number of year y, month m (1..12), day 1, plus d - 1 days
DaysFromCivil(y, m, d) ==
    LET yy  == IF m <= 2 THEN y - 1 ELSE y
        era == yy \div 400
        yoe == yy - era * 400
        mp  == IF m > 2 THEN m - 3 ELSE m + 9
        doy == (153 * mp + 2) \div 5
        doe == yoe * 365 + yoe \div 4 - yoe \div 100 + doy
    IN  era * 146097 + doe - 719468 + (d - 1)

\* the calendar day [y, m, d] of day number z
CivilFromDays(z) ==
    LET zz  == z + 719468
        era == zz \div 146097
        doe == zz - era * 146097
        yoe == (doe - doe \div 1460 + doe \div 36524 - doe \div 146096) \div 365
        doy == doe - (365 * yoe + yoe \div 4 - yoe \div 100)
        mp  == (5 * doy + 2) \div 153
        dd  == doy - (153 * mp + 2) \div 5 + 1
        mm  == IF mp < 10 THEN mp + 3 ELSE mp - 9
    IN  [y |-> yoe + era * 400 + (IF mm <= 2 THEN 1 ELSE 0), m |-> mm, d |-> dd]

IsLeap(y) == y % 4 = 0 /\ (y % 100 # 0 \/ y % 400 = 0)

DaysInMonth(y, m) ==
    IF m = 2 THEN (IF IsLeap(y) THEN 29 ELSE 28)
    ELSE IF m \in {4, 6, 9, 11} THEN 30 ELSE 31

\* new Date(value) for a time value in hours: TimeClip
DateOfTime(h) ==
    IF \/ Abs(h) \div HoursPerDay > MaxDateDays
       \/ Abs(h) \div HoursPerDay = MaxDateDays /\ Abs(h) % HoursPerDay # 0
    THEN NaN ELSE Rat(h, 1)

\* new Date(year, monthIndex, day): a year in 0..99 means 1900 + year, and a
\* month index or a day out of range carries over into the neighbouring
\* months and years (MakeDay)
NewDate(year, monthIndex, day) ==
    LET yr == IF year >= 0 /\ year <= 99 THEN 1900 + year ELSE year
        ym == yr + monthIndex \div 12
        mn == monthIndex % 12
        dn == DaysFromCivil(ym, mn + 1, day)
    IN  IF Abs(dn) > MaxDateDays THEN NaN ELSE DateOfTime(dn * HoursPerDay)

\* new Date(0)
Epoch == DateOfTime(0)

\* the local calendar day of a valid date
CivilOf(date) == CivilFromDays(date.n \div HoursPerDay)

\* Date.prototype.getMonth, for a valid date
GetMonth(date) == CivilOf(date).m - 1

----------------------------------------------------------------------------
(* The date patterns: /^(\d{a})[\/-](\d{b})[\/-](\d{c})$/ *)

Separators == {"/", "-"}

\* String.prototype.match against a three-segment pattern whose segments
\* have lengths in l1, l2, l3: the three captures, or <<>> for no match
Match3(s, l1, l2, l3) ==
    LET seps == {i \in 1..Len(s) : s[i] \in Separators}
    IN  IF /\ Cardinality(seps) = 2
           /\ \A i \in 1..Len(s) : i \in seps \/ IsDigit(s[i])
        THEN LET a == CHOOSE i \in seps : \A j \in seps : i <= j
                 b == CHOOSE i \in seps : \A j \in seps : i >= j
                 p1 == SubSeq(s, 1, a - 1)
                 p2 == SubSeq(s, a + 1, b - 1)
                 p3 == SubSeq(s, b + 1, Len(s))
             IN  IF Len(p1) \in l1 /\ Len(p2) \in l2 /\ Len(p3) \in l3
                 THEN <<p1, p2, p3>> ELSE <<>>
        ELSE <<>>

\* parseInt of a capture, as an integer (a capture is a run of digits)
IntOf(part) == DigitsValue(part)

----------------------------------------------------------------------------
(* src/app.js : parseDate *)

\* Date.parse(text): the platform's answer, NaN for a text it cannot read
DateParse(text) == IF text \in DOMAIN dateParse THEN dateParse[text] ELSE NaN

\* const formats = [...]
formats ==
    << <<{1, 2}, {1, 2}, {4}>>,    \* DD/MM/YYYY or DD-MM-YYYY
       <<{1, 2}, {1, 2}, {4}>>,    \* MM/DD/YYYY or MM-DD-YYYY
       <<{4}, {1, 2}, {1, 2}>>,    \* YYYY/MM/DD or YYYY-MM-DD
       <<{1, 2}, {1, 2}, {2}>> >>  \* DD/MM/YY or DD-MM-YY

\* the fallback with the isNaN test forgotten: new Date(Date.parse(dateStr))
ServerFallback_Unchecked(dp) == dp

\* if (!isNaN(parsed)) new Date(parsed) else new Date(0)
ServerFallback(dp) == IF IsNaN(dp) THEN Epoch ELSE dp

\* the server placing a two-digit year in a century window: 50..99 in the
\* 1900s, 00..49 in the 2000s
ServerTryFormats_Windowed(dateStr, i, dp) ==
    LET parts == Match3(dateStr, formats[4][1], formats[4][2], formats[4][3])
    IN  IF parts = <<>> THEN ServerFallback(dp)
        ELSE NewDate(IntOf(parts[3]) + (IF IntOf(parts[3]) >= 50 THEN 1900 ELSE 2000),
                     IntOf(parts[2]) - 1, IntOf(parts[1]))

\* the server reading every DD/MM/YYYY text month first
ServerTryFormats_MonthFirst(dateStr, i, dp) ==
    LET parts == Match3(dateStr, formats[1][1], formats[1][2], formats[1][3])
    IN  IF parts = <<>> THEN ServerFallback(dp)
        ELSE NewDate(IntOf(parts[3]), IntOf(parts[1]) - 1, IntOf(parts[2]))

RECURSIVE ServerTryFormats(_, _, _)
\* for (const format of formats) { ... }, from the i-th format on
ServerTryFormats(dateStr, i, dp) ==
    IF i > Len(formats) THEN ServerFallback(dp)
    ELSE LET parts == Match3(dateStr, formats[i][1], formats[i][2], formats[i][3])
         IN  IF parts = <<>> THEN ServerTryFormats(dateStr, i + 1, dp)
             ELSE IF Len(parts[1]) = 4
             THEN NewDate(IntOf(parts[1]), IntOf(parts[2]) - 1, IntOf(parts[3]))
             ELSE IF Len(parts[3]) = 4
             THEN LET date1 == NewDate(IntOf(parts[3]), IntOf(parts[2]) - 1, IntOf(parts[1]))
                      date2 == NewDate(IntOf(parts[3]), IntOf(parts[1]) - 1, IntOf(parts[2]))
                  IN  IF ~IsNaN(date1) /\ GetMonth(date1) = IntOf(parts[2]) - 1
                      THEN date1 ELSE date2
             ELSE IF Len(parts[3]) = 2
             THEN NewDate(IntOf(parts[3]) + 2000, IntOf(parts[2]) - 1, IntOf(parts[1]))
             ELSE ServerTryFormats(dateStr, i + 1, dp)

parseDate(dateStr) ==
    IF dateStr = <<>> \/ Trim(dateStr) = <<>> THEN Epoch
    ELSE ServerTryFormats(Trim(dateStr), 1, DateParse(Trim(dateStr)))

----------------------------------------------------------------------------
(* src/public/script.js : parseDate *)

dateFormats ==
    << <<{1, 2}, {1, 2}, {4}>>,    \* DD/MM/YYYY or D/M/YYYY
       <<{1, 2}, {1, 2}, {2}>>,    \* DD/MM/YY or D/M/YY
       <<{4}, {1, 2}, {1, 2}>> >>  \* YYYY-MM-DD

\* the client falling back to the server's sentinel instead of the clock
ClientFallback_Epoch(dp, now) == IF IsNaN(dp) THEN Epoch ELSE dp

\* if (!isNaN(parsedDate)) new Date(parsedDate) else new Date()
ClientFallback(dp, now) == IF IsNaN(dp) THEN now ELSE dp

RECURSIVE ClientTryFormats(_, _, _, _)
ClientTryFormats(dateStr, i, dp, now) ==
    IF i > Len(dateFormats) THEN ClientFallback(dp, now)
    ELSE LET match == Match3(dateStr, dateFormats[i][1], dateFormats[i][2],
                             dateFormats[i][3])
         IN  IF match = <<>> THEN ClientTryFormats(dateStr, i + 1, dp, now)
             ELSE IF Len(match[3]) = 4
             THEN (IF Len(match[1]) = 4
                   THEN NewDate(IntOf(match[1]), IntOf(match[2]) - 1, IntOf(match[3]))
                   ELSE NewDate(IntOf(match[3]), IntOf(match[2]) - 1, IntOf(match[1])))
             ELSE IF Len(match[3]) = 2
             THEN NewDate(IntOf(match[3]) + 2000, IntOf(match[2]) - 1, IntOf(match[1]))
             ELSE ClientTryFormats(dateStr, i + 1, dp, now)

clientParseDate(dateStr) ==
    IF dateStr = <<>> \/ Trim(dateStr) = <<>> THEN dateNow
    ELSE ClientTryFormats(Trim(dateStr), 1, DateParse(Trim(dateStr)), dateNow)

----------------------------------------------------------------------------
(* Values of a record field: a string or a Date object.                    *)

StringValue(text) == [type |-> "string", text |-> text, time |-> NaN]

DateValue(date) == [type |-> "Date", text |-> <<>>, time |-> date]

\* a || b on texts: the empty text and undefined (a missing key, modelled as
\* the empty text) are falsy
Or(a, b) == IF a # <<>> THEN a ELSE b

\* a || 0 on numbers
OrZero(x) == IF NumTruthy(x) THEN x ELSE Zero

\* data[key] of a parsed row: the cell of the column of that name,
\* undefined (the empty text) when there is none
Cell(data, key) ==
    IF \E i \in 1..Len(data) : data[i][1] = key
    THEN data[CHOOSE i \in 1..Len(data) :
                 data[i][1] = key /\ \A j \in 1..Len(data) : data[j][1] = key => j <= i][2]
    ELSE <<>>

t_date == <<"d", "a", "t", "e">>
t_Date == <<"D", "a", "t", "e">>
t_product == <<"p", "r", "o", "d", "u", "c", "t">>
t_Product == <<"P", "r", "o", "d", "u", "c", "t">>
t_quantity == <<"q", "u", "a", "n", "t", "i", "t", "y">>
t_Quantity == <<"Q", "u", "a", "n", "t", "i", "t", "y">>
t_qty == <<"q", "t", "y">>
t_revenue == <<"r", "e", "v", "e", "n", "u", "e">>
t_Revenue == <<"R", "e", "v", "e", "n", "u", "e">>
t_amount == <<"a", "m", "o", "u", "n", "t">>
t_price == <<"p", "r", "i", "c", "e">>
t_Unknown == <<"U", "n", "k", "n", "o", "w", "n">>
t_0 == <<"0">>

----------------------------------------------------------------------------
(* src/app.js : the 'data' handler of /upload *)

\* key.trim().toLowerCase() without the toLowerCase
normalizedKey_NoLower(key) == Trim(key)

\* const normalizedKey = key.trim().toLowerCase()
normalizedKey(key) == ToLowerCase(Trim(key))

\* Object.keys(data).forEach(key => normalizedData[normalizedKey] = data[key])
normalizedData(data) ==
    [i \in 1..Len(data) |-> <<normalizedKey(data[i][1]), data[i][2]>>]

\* the record pushed on results for one row
serverRecord(data) ==
    LET nd          == normalizedData(data)
        date        == Or(Cell(nd, t_date), Or(Cell(nd, t_date), <<>>))
        product     == Or(Cell(nd, t_product), Or(Cell(nd, t_product), t_Unknown))
        quantityStr == Or(Cell(nd, t_quantity), Or(Cell(nd, t_quantity),
                          Or(Cell(nd, t_qty), t_0)))
        quantity    == parseNumber(quantityStr)
        revenueStr  == Or(Cell(nd, t_revenue), Or(Cell(nd, t_revenue),
                          Or(Cell(nd, t_amount), Or(Cell(nd, t_price), t_0))))
        revenue     == parseNumber(revenueStr)
    IN  [date      |-> StringValue(date),
         product   |-> product,
         quantity  |-> quantity,
         revenue   |-> revenue,
         unitPrice |-> IF NumLess(Zero, quantity) THEN NumDiv(revenue, quantity)
                       ELSE Zero]

----------------------------------------------------------------------------
(* src/unnamed/part_001 : the 'data' handler of the alternate /upload *)

altRecord(data) ==
    [date     |-> StringValue(Or(Cell(data, t_Date), Or(Cell(data, t_date), <<>>))),
     quantity |-> OrZero(ParseInt(Or(Cell(data, t_Quantity),
                                     Or(Cell(data, t_quantity), t_0)))),
     revenue  |-> OrZero(ParseInt(Or(Cell(data, t_Revenue),
                                     Or(Cell(data, t_revenue), t_0)))),
     product  |-> Or(Cell(data, t_Product), Or(Cell(data, t_product), t_Unknown))]

----------------------------------------------------------------------------
(* src/public/script.js : parseCSVText, the conversion of one row *)

\* headers.forEach((header, index) => rowData[header] = row[index].trim()),
\* the headers having been trimmed
rowData(data) == [i \in 1..Len(data) |-> <<Trim(data[i][1]), Trim(data[i][2])>>]

\* the date conversion left out: date: rowData['Date'] || rowData['date']
clientDate_Raw(text) == StringValue(text)

\* date: parseDate(rowData['Date'] || rowData['date'])
clientDate(text) == DateValue(clientParseDate(text))

\* const processedRow = {...}; the 0 of "|| 0" reads as the text "0"
processedRow(data) ==
    LET rd == rowData(data)
    IN  [date     |-> clientDate(Or(Cell(rd, t_Date), Cell(rd, t_date))),
         quantity |-> ParseInt(Or(Cell(rd, t_quantity), Or(Cell(rd, t_Quantity), t_0))),
         revenue  |-> ParseInt(Or(Cell(rd, t_Revenue), Or(Cell(rd, t_revenue), t_0)))]

\* if (processedRow.date && !isNaN(processedRow.date)) data.push(processedRow):
\* a Date object is truthy and isNaN reads its time value; a string is
\* truthy unless empty and isNaN reads it as a number
clientKeeps(row) ==
    IF row.date.type = "Date" THEN ~IsNaN(row.date.time)
    ELSE row.date.text # <<>> /\ ~IsNaN(ParseFloat(row.date.text))

----------------------------------------------------------------------------
(* Arrays and objects *)

NullValue == [type |-> "null", text |-> <<>>, time |-> NaN]

\* x - y
NumSub(x, y) == NumAdd(x, IF y.k = "nan" THEN NaN ELSE [y EXCEPT !.n = -y.n])

\* x put into the sorted array before the first element it must precede
InsertInOrder(sorted, x, before) ==
    LET later == {i \in 1..Len(sorted) : before[x, sorted[i]]}
        at    == IF later = {} THEN Len(sorted) + 1
                 ELSE CHOOSE i \in later : \A j \in later : i <= j
    IN  SubSeq(sorted, 1, at - 1) \o <<x>> \o SubSeq(sorted, at, Len(sorted))

\* Array.prototype.sort with a consistent comparator: the stable order in
\* which a precedes b when Before(a, b), i.e. when compare(a, b) < 0
SortBy(array, before) ==
    LET sorted[n \in 0..Len(array)] ==
            IF n = 0 THEN <<>> ELSE InsertInOrder(sorted[n - 1], n, before)
    IN  [k \in 1..Len(array) |-> array[sorted[Len(array)][k]]]

\* array.slice(0, n)
SliceTo(array, n) == SubSeq(array, 1, IF Len(array) < n THEN Len(array) ELSE n)

\* array.reduce((sum, item) => sum + f(item), start)
Reduce(array, start) ==
    LET sum[n \in 0..Len(array)] ==
            IF n = 0 THEN start ELSE NumAdd(sum[n - 1], array[n])
    IN  sum[Len(array)]

\* the names every object literal {} inherits from Object.prototype, each
\* holding a truthy value that is not an entry of the object
ObjectPrototypeKeys ==
    { <<"c", "o", "n", "s", "t", "r", "u", "c", "t", "o", "r">>, <<"t", "o", "S", "t", "r", "i", "n", "g">>, <<"v", "a", "l", "u", "e", "O", "f">>, <<"h", "a", "s", "O", "w", "n", "P", "r", "o", "p", "e", "r", "t", "y">>,
      <<"i", "s", "P", "r", "o", "t", "o", "t", "y", "p", "e", "O", "f">>, <<"p", "r", "o", "p", "e", "r", "t", "y", "I", "s", "E", "n", "u", "m", "e", "r", "a", "b", "l", "e">>, <<"t", "o", "L", "o", "c", "a", "l", "e", "S", "t", "r", "i", "n", "g">>,
      <<"_", "_", "p", "r", "o", "t", "o", "_", "_">>, <<"_", "_", "d", "e", "f", "i", "n", "e", "G", "e", "t", "t", "e", "r", "_", "_">>, <<"_", "_", "d", "e", "f", "i", "n", "e", "S", "e", "t", "t", "e", "r", "_", "_">>,
      <<"_", "_", "l", "o", "o", "k", "u", "p", "G", "e", "t", "t", "e", "r", "_", "_">>, <<"_", "_", "l", "o", "o", "k", "u", "p", "S", "e", "t", "t", "e", "r", "_", "_">> }

\* the key is an array index: a canonical decimal numeral
IsIndexKey(key) ==
    /\ key # <<>>
    /\ Len(key) <= 9
    /\ \A i \in 1..Len(key) : IsDigit(key[i])
    /\ (Len(key) = 1 \/ key[1] # "0")

IndexBefore(entries) ==
    [i, j \in 1..Len(entries) |-> DigitsValue(entries[i].key) < DigitsValue(entries[j].key)]

\* Object.values / Object.entries / Object.keys of an object whose own
\* properties were created in the order of the array: the index keys in
\* ascending order, then the other keys in creation order
OwnEntries(obj) ==
    SortBy(SelectSeq(obj, LAMBDA e : IsIndexKey(e.key)),
           IndexBefore(SelectSeq(obj, LAMBDA e : IsIndexKey(e.key))))
    \o SelectSeq(obj, LAMBDA e : ~IsIndexKey(e.key))

HasOwn(obj, key) == \E i \in 1..Len(obj) : obj[i].key = key

\* !obj[key]: no own property of that name and none inherited either
Missing(obj, key) == ~HasOwn(obj, key) /\ key \notin ObjectPrototypeKeys

\* if (!stats[key]) stats[key] = {quantity: 0, revenue: 0, count: 0};
\* stats[key].quantity += q; stats[key].revenue += r; stats[key].count++
\* (for an inherited name the three updates land on the inherited value and
\* the object gains no entry)
Accumulate(stats, key, q, r) ==
    IF HasOwn(stats, key)
    THEN [i \in 1..Len(stats) |->
            IF stats[i].key = key
            THEN [key |-> key, quantity |-> NumAdd(stats[i].quantity, q),
                  revenue |-> NumAdd(stats[i].revenue, r), count |-> stats[i].count + 1]
            ELSE stats[i]]
    ELSE IF Missing(stats, key)
    THEN Append(stats, [key |-> key, quantity |-> NumAdd(Zero, q),
                        revenue |-> NumAdd(Zero, r), count |-> 1])
    ELSE stats

\* data.forEach(item => accumulate under Key(item)), from an empty object
GroupBy(data, keys) ==
    LET stats[n \in 0..Len(data)] ==
            IF n = 0 THEN <<>>
            ELSE Accumulate(stats[n - 1], keys[n], data[n].quantity,
                            data[n].revenue)
    IN  stats[Len(data)]

----------------------------------------------------------------------------
(* Date formatting *)

\* date.toLocaleDateString('en-US'): M/D/YYYY
ToLocaleDateString(date) ==
    IF IsNaN(date) THEN <<"I", "n", "v", "a", "l", "i", "d", " ", "D", "a", "t", "e">>
    ELSE LET c == CivilOf(date)
         IN  IntToText(c.m) \o <<"/">> \o IntToText(c.d) \o <<"/">> \o IntToText(c.y)

\* date.toISOString(), of a valid date on a whole hour
ToISOString(date) ==
    LET c == CivilOf(date)
        year == IF c.y >= 0 /\ c.y <= 9999 THEN Pad(c.y, 4)
                ELSE <<IF c.y < 0 THEN "-" ELSE "+">> \o Pad(Abs(c.y), 6)
    IN  year \o <<"-">> \o Pad(c.m, 2) \o <<"-">> \o Pad(c.d, 2) \o <<"T">>
        \o Pad(date.n % HoursPerDay, 2) \o <<":", "0", "0", ":", "0", "0", ".", "0", "0", "0", "Z">>

----------------------------------------------------------------------------
(* src/app.js : calculateAnalytics.  data is [present, items]: the array   *)
(* handed over, or present = FALSE for undefined.                          *)

Undefined == [present |-> FALSE, items |-> <<>>]

Array(items) == [present |-> TRUE, items |-> items]

\* the number of products kept by .slice(0, 10)
TopN == 10

\* item.product || 'Unknown'
productKey(item) == Or(item.product, t_Unknown)

\* the bucket keyed by the instant instead of the day
dateKey_Instant(item) == ToISOString(parseDate(item.date.text))

\* parseDate(item.date).toLocaleDateString('en-US')
dateKey(item) == ToLocaleDateString(parseDate(item.date.text))

\* .sort((a, b) => b.revenue - a.revenue)
revenueDescending(array) ==
    [a, b \in 1..Len(array) |->
        NumLess(NumSub(array[b].revenue, array[a].revenue), Zero)]

\* .sort((a, b) => parseDate(a.date) - parseDate(b.date))
dateAscending(array) ==
    [a, b \in 1..Len(array) |->
        NumLess(NumSub(parseDate(array[a].date), parseDate(array[b].date)), Zero)]

\* the smallest and the largest of a non-empty set of time values
MinTime(times) == CHOOSE t \in times : \A u \in times : ~NumLess(u, t)

MaxTime(times) == CHOOSE t \in times : \A u \in times : ~NumLess(t, u)

\* the average taken over the buckets instead of the records
average_PerBucket(total, data) ==
    NumDiv(total, Rat(Cardinality({dateKey(data[i]) : i \in 1..Len(data)}), 1))

\* totalX / data.length
average(total, data) == NumDiv(total, Rat(Len(data), 1))

\* the result for no data
emptyAnalytics ==
    [totalQuantity   |-> Zero,
     totalRevenue    |-> Zero,
     avgQuantity     |-> Zero,
     avgRevenue      |-> Zero,
     avgPricePerUnit |-> Zero,
     dateRange       |-> [start |-> NullValue, end |-> NullValue],
     topProducts     |-> <<>>,
     dailyStats      |-> <<>>]

\* data.map(item => parseDate(item.date)).filter(d => d.getTime() > 0)
validDates(items) ==
    {d \in {parseDate(items[i].date.text) : i \in 1..Len(items)} :
        ~IsNaN(d) /\ NumLess(Zero, d)}

dateRange(dates) ==
    IF dates # {}
    THEN [start |-> StringValue(ToISOString(MinTime(dates))),
          end   |-> StringValue(ToISOString(MaxTime(dates)))]
    ELSE [start |-> NullValue, end |-> NullValue]

\* the division without the test of the quantity
ratio_Unguarded(revenue, quantity) == NumDiv(revenue, quantity)

\* revenue / quantity when the quantity is positive, 0 otherwise
ratio(revenue, quantity) ==
    IF NumLess(Zero, quantity) THEN NumDiv(revenue, quantity) ELSE Zero

productStats(items) ==
    OwnEntries(GroupBy(items, [i \in 1..Len(items) |-> productKey(items[i])]))

\* .map(([product, stats]) => ({product, ...}))
topProduct(entry) ==
    [product  |-> entry.key,
     quantity |-> entry.quantity,
     revenue  |-> entry.revenue,
     avgRevenuePerUnit |-> ratio(entry.revenue, entry.quantity)]

sortByRevenue(array) == SortBy(array, revenueDescending(array))

topProducts(entries) ==
    SliceTo(sortByRevenue([i \in 1..Len(entries) |-> topProduct(entries[i])]), TopN)

dailyStats(items) ==
    OwnEntries(GroupBy(items, [i \in 1..Len(items) |-> dateKey(items[i])]))

\* .map(([date, stats]) => ({date, ...}))
dailyStat(entry) ==
    [date         |-> entry.key,
     quantity     |-> entry.quantity,
     revenue      |-> entry.revenue,
     transactions |-> entry.count]

sortByDate(array) == SortBy(array, dateAscending(array))

\* the object returned for a non-empty array
analytics(items, totalQuantity, totalRevenue, products, days) ==
    [totalQuantity   |-> totalQuantity,
     totalRevenue    |-> totalRevenue,
     avgQuantity     |-> average(totalQuantity, items),
     avgRevenue      |-> average(totalRevenue, items),
     avgPricePerUnit |-> ratio(totalRevenue, totalQuantity),
     dateRange       |-> dateRange(validDates(items)),
     topProducts     |-> topProducts(products),
     dailyStats      |-> sortByDate([i \in 1..Len(days) |-> dailyStat(days[i])]),
     summary         |-> [records  |-> Len(items),
                          products |-> Len(products),
                          days     |-> Len(days)]]

calculateAnalytics(data) ==
    IF ~data.present \/ Len(data.items) = 0
    THEN emptyAnalytics
    ELSE analytics(data.items,
                   Reduce([i \in 1..Len(data.items) |-> data.items[i].quantity], Zero),
                   Reduce([i \in 1..Len(data.items) |-> data.items[i].revenue], Zero),
                   productStats(data.items),
                   dailyStats(data.items))

----------------------------------------------------------------------------
(* src/app.js : the /upload request.  The uploaded file is                 *)
(* [present, header, headers, rows]: present = FALSE when the request      *)
(* carries no file, header = FALSE when the file has no line at all; a row *)
(* is [cells, error], its cells in header order, error the message of the  *)
(* exception its normalization raises, "" when it raises none.  A response *)
(* is [status, ...]; the file's name and size are left out of it.          *)

NoFile == [present |-> FALSE, header |-> FALSE, headers |-> <<>>, rows |-> <<>>]

\* the row object the CSV parser emits for one line: a property per header
RowObject(headers, cells) ==
    [i \in 1..Len(headers) |->
        <<headers[i], IF i <= Len(cells) THEN cells[i] ELSE <<>>>>]

\* errorMessages.push(`Error parsing row: ${error.message}`)
warning(message) == [text |-> "Error parsing row: ", detail |-> message]

\* (a, b) => parseDate(a.date) - parseDate(b.date)
byParsedDate(array) ==
    [a, b \in 1..Len(array) |->
        NumLess(NumSub(parseDate(array[a].date.text), parseDate(array[b].date.text)),
                Zero)]

\* the results left in the order of the rows
sortedResults_Unsorted(array) == array

\* results.sort(...)
sortedResults(array) == SortBy(array, byParsedDate(array))

noFileResponse == [status |-> 400, error |-> "No file uploaded"]

noDataResponse(details) ==
    [status |-> 400, error |-> "No valid data found in CSV file", details |-> details]

streamErrorResponse(message) ==
    [status |-> 500, error |-> "Error parsing CSV file", details |-> message]

\* the answer of the handler's own catch
exceptionResponse(message) ==
    [status |-> 500, error |-> "Server error during file processing", details |-> message]

\* res.json({success: true, ...})
successResponse(sorted, analysis, warned, warnings) ==
    [status    |-> 200,
     success   |-> TRUE,
     records   |-> Len(sorted),
     data      |-> sorted,
     analytics |-> analysis,
     metadata  |-> [records     |-> Len(sorted),
                    dateRange   |-> analysis.dateRange,
                    hasWarnings |-> warned,
                    warnings    |-> warnings]]

\* the 'end' handler without its test for no record
endResponse_Unchecked(array, warned, warnings) ==
    successResponse(array, calculateAnalytics(Array(array)), warned, warnings)

\* the response of the 'end' handler
endResponse(array, warned, warnings) ==
    IF Len(array) = 0 THEN noDataResponse(warnings)
    ELSE successResponse(array, calculateAnalytics(Array(array)), warned, warnings)

----------------------------------------------------------------------------
(* src/public/script.js : the upload button's click handler *)

NoSummary == [shown |-> FALSE]

\* Math.min(...values) and Math.max(...values)
MathMin(values) ==
    IF Len(values) = 0 THEN PosInf
    ELSE IF \E i \in 1..Len(values) : IsNaN(values[i]) THEN NaN
    ELSE MinTime({values[i] : i \in 1..Len(values)})

MathMax(values) ==
    IF Len(values) = 0 THEN NegInf
    ELSE IF \E i \in 1..Len(values) : IsNaN(values[i]) THEN NaN
    ELSE MaxTime({values[i] : i \in 1..Len(values)})

\* (a, b) => a.date - b.date
byDate(array) ==
    [a, b \in 1..Len(array) |->
        NumLess(NumSub(array[a].date.time, array[b].date.time), Zero)]

\* data.sort((a, b) => a.date - b.date)
sortedByDate(array) == SortBy(array, byDate(array))

\* the rows parseCSVText returns for a file that has a header line
parseCSVText(file) ==
    sortedByDate(SelectSeq([i \in 1..Len(file.rows) |->
                               processedRow(RowObject(file.headers, file.rows[i].cells))],
                           clientKeeps))

\* the figures of displayAnalyticsSummary
summaryOf(data, totalQuantity, totalRevenue) ==
    [shown         |-> TRUE,
     totalQuantity |-> totalQuantity,
     totalRevenue  |-> totalRevenue,
     avgQuantity   |-> NumDiv(totalQuantity, Rat(Len(data), 1)),
     avgRevenue    |-> NumDiv(totalRevenue, Rat(Len(data), 1)),
     minQuantity   |-> MathMin([i \in 1..Len(data) |-> data[i].quantity]),
     maxQuantity   |-> MathMax([i \in 1..Len(data) |-> data[i].quantity])]

displayAnalyticsSummary(data) ==
    summaryOf(data,
              Reduce([i \in 1..Len(data) |-> data[i].quantity], Zero),
              Reduce([i \in 1..Len(data) |-> data[i].revenue], Zero))

\* what visualizeData shows: an alert, or the three charts and the summary
visualizeData(data) ==
    IF Len(data) = 0
    THEN [alerts  |-> <<"No valid data found in CSV file.">>,
          charts  |-> <<>>,
          summary |-> NoSummary]
    ELSE [alerts  |-> <<>>,
          charts  |-> <<"quantityChart", "revenueChart", "combinedChart">>,
          summary |-> displayAnalyticsSummary(data)]

----------------------------------------------------------------------------
(* src/app.js : the first /upload, and src/unnamed/part_000 : the client   *)
(* that charts its answer.  The answer travels as JSON, in which a number  *)
(* that is not finite becomes null.                                        *)

JsonNull == [k |-> "null", n |-> 0, d |-> 1]

\* JSON.stringify of a number
Json(x) == IF x.k = "fin" THEN x ELSE JsonNull

\* ToNumber of a number or of null, as the operator + applies it
ToNumber(x) == IF x.k = "null" THEN Zero ELSE x

\* results.map(row => ({date, product, quantity, revenue})), as it arrives
salesRecord(row) ==
    [date     |-> Cell(row, t_Date),
     product  |-> Cell(row, t_Product),
     quantity |-> Json(ParseInt(Cell(row, t_Quantity))),
     revenue  |-> Json(ParseFloat(Cell(row, t_Revenue)))]

\* new Date(sale.date).toLocaleDateString()
localeDate(sale) == ToLocaleDateString(DateParse(sale.date))

\* acc[date].quantity += sale.quantity; acc[date].revenue += sale.revenue
summed(data) ==
    [i \in 1..Len(data) |->
        [quantity |-> ToNumber(data[i].quantity), revenue |-> ToNumber(data[i].revenue)]]

\* the buckets of aggregatedData in the order of Object.keys
aggregatedData(data) ==
    OwnEntries(GroupBy(summed(data), [i \in 1..Len(data) |-> localeDate(data[i])]))

\* the number of buckets a moving average is taken over
Window == 3

\* data[dates[index]]?.quantity || 0
quantityAt(data, index) ==
    IF index \in 1..Len(data) THEN OrZero(data[index].quantity) ELSE Zero

\* the sum divided by the number of buckets that exist around the index
movingAverageAt_ByNeighbours(data, index) ==
    NumDiv(NumAdd(NumAdd(quantityAt(data, index - 1), quantityAt(data, index)),
                  quantityAt(data, index + 1)),
           Rat(Cardinality({index - 1, index, index + 1} \cap (1..Len(data))), 1))

\* const sum = ...; const avg = sum / 3
movingAverageAt(data, index) ==
    NumDiv(NumAdd(NumAdd(quantityAt(data, index - 1), quantityAt(data, index)),
                  quantityAt(data, index + 1)),
           Rat(Window, 1))

calculateMovingAverage(data) ==
    [index \in 1..Len(data) |->
        [date |-> data[index].key, avg |-> movingAverageAt(data, index)]]

\* the object performAnalytics returns for its buckets
analysisResults(buckets) ==
    [aggregatedData |-> buckets,
     totalQuantity  |-> Reduce([i \in 1..Len(buckets) |-> buckets[i].quantity], Zero),
     totalRevenue   |-> Reduce([i \in 1..Len(buckets) |-> buckets[i].revenue], Zero),
     predictions    |-> calculateMovingAverage(buckets)]

performAnalytics(data) == analysisResults(aggregatedData(data))

----------------------------------------------------------------------------
(* The inputs of the numeric coercion: every text over NumAlphabet of at   *)
(* most MaxNumLen characters, and the texts the documentation names.       *)

MaxNumLen == 3

NumAlphabet == {"$", ",", " ", "-", ".", "0", "1", "5", "x"}

RECURSIVE TextsUpTo(_, _)
TextsUpTo(alphabet, len) ==
    IF len = 0 THEN {<<>>}
    ELSE LET shorter == TextsUpTo(alphabet, len - 1)
         IN  shorter \cup {Append(t, c) : t \in shorter, c \in alphabet}

NumExamples ==
    { <<"$", "1", ",", "2", "0", "0">>,
      <<"1", "2", "0", "0", ".", "5", "0">>,
      <<" ", "$", " ", "1", "5", " ">>,
      <<"-", "I", "n", "f", "i", "n", "i", "t", "y">>,
      <<"1", "e", "9", "9", "9">>,
      <<"-", "1", "5", "e", "-", "1">>,
      <<"1", "5", "e", "2">>,
      <<"1", "5", "k", "g">>,
      <<"N", "/", "A">> }

NumTexts == TextsUpTo(NumAlphabet, MaxNumLen) \cup NumExamples

\* one call parseNumber(numText)
CallParseNumber ==
    /\ numPc = "call"
    /\ numOut' = parseNumber(numText)
    /\ numPc' = "parseNumber"
    /\ UNCHANGED <<numText, envVars, dateVars, normVars, anaVars, upVars, mvVars, ccVars>>

----------------------------------------------------------------------------
(* The inputs of the date disambiguation: three numeric segments in the    *)
(* three shapes, with days 0..MaxDaySeg and months 0..MaxMonthSeg written  *)
(* with and without a leading zero, and texts of no numeric shape.         *)

MaxDaySeg == 32

MaxMonthSeg == 13

SegTexts(max) ==
    {IntToText(n) : n \in 0..max} \cup {Pad(n, 2) : n \in 0..9} \cup {<<"9", "9">>}

DaySegs == SegTexts(MaxDaySeg)

MonthSegs == SegTexts(MaxMonthSeg)

Year4Segs == {Pad(n, 4) : n \in {50, 99, 100, 1970, 2024, 2026, 9999}}

Year2Segs == {Pad(n, 2) : n \in {0, 26, 99}}

SepPairs == {<<"/", "/">>, <<"-", "-">>, <<"/", "-">>}

Join3(a, b, c, sp) == a \o <<sp[1]>> \o b \o <<sp[2]>> \o c

DMY4Texts == {Join3(a, b, c, sp) : a \in DaySegs, b \in MonthSegs,
                                   c \in Year4Segs, sp \in SepPairs}

DMY2Texts == {Join3(a, b, c, sp) : a \in DaySegs, b \in MonthSegs,
                                   c \in Year2Segs, sp \in SepPairs}

Y4MDTexts == {Join3(c, b, a, sp) : a \in DaySegs, b \in MonthSegs,
                                   c \in Year4Segs, sp \in {<<"-", "-">>, <<"/", "/">>}}

FreeTexts ==
    { <<>>, <<" ">>, <<" ", "\t", " ">>,
      <<"a", "b", "c">>,
      <<"J", "a", "n", " ", "5", " ", "2", "0", "2", "6">>,
      <<"2", "0", "2", "6", "-", "0", "2", "-", "0", "1", "T", "1", "0", ":", "0", "0">>,
      <<"1", "/", "2", "/", "3", "/", "4">>,
      <<"1", "2", "/", "2", "0", "2", "6">>,
      <<"1", "/", "/", "2", "0", "2", "6">>,
      <<"1", "2", "3", "/", "1", "/", "2", "0", "2", "6">>,
      <<"1", "/", "1", "/", "0", "2", "6">>,
      <<"1", ".", "2", ".", "2", "0", "2", "6">>,
      <<"2", "0", "2", "6", "0", "2", "0", "1">> }

PaddedTexts ==
    { <<" ", "1", "3", "/", "1", "-", "2", "0", "2", "6", " ">>,
      <<"\t", "2", "0", "2", "6", "-", "0", "2", "-", "0", "1">>,
      <<"0", "5", "/", "0", "6", "/", "2", "6", " ">> }

DateTexts == DMY4Texts \cup DMY2Texts \cup Y4MDTexts \cup FreeTexts \cup PaddedTexts

\* the answers of Date.parse: NaN, or a time value (an instant of
\* 1 January 2026, one of 5 June 2025, one before the epoch)
DateParseAnswers ==
    {NaN, Rat(20454 * HoursPerDay + 10, 1), Rat(20244 * HoursPerDay, 1),
     Rat(-(400 * HoursPerDay) + 3, 1)}

\* the instant the clock shows (22:00 on 4 November 2026)
NowTimes == {Rat(20761 * HoursPerDay + 22, 1)}

\* the text has a numeric shape that both implementations decide by
\* themselves, so that neither consults Date.parse: day/month/year with a
\* year of 4 or 2 digits, or year/month/day with a day of 2 digits
DecidedWithoutDateParse(text) ==
    \/ Match3(Trim(text), {1, 2}, {1, 2}, {4}) # <<>>
    \/ Match3(Trim(text), {1, 2}, {1, 2}, {2}) # <<>>
    \/ Match3(Trim(text), {4}, {1, 2}, {2}) # <<>>

\* src/app.js: one call parseDate(dateText)
CallServerParseDate ==
    /\ datePc = "call"
    /\ dateOut' = parseDate(dateText)
    /\ datePc' = "server"
    /\ UNCHANGED <<dateText, envVars, numVars, normVars, anaVars, upVars, mvVars, ccVars>>

\* src/public/script.js: one call parseDate(dateText)
CallClientParseDate ==
    /\ datePc = "call"
    /\ dateOut' = clientParseDate(dateText)
    /\ datePc' = "client"
    /\ UNCHANGED <<dateText, envVars, numVars, normVars, anaVars, upVars, mvVars, ccVars>>

----------------------------------------------------------------------------
(* The inputs of the normalizers: rows of a date column, a product column, *)
(* a quantity column, an optional "qty" column, a revenue column and an    *)
(* optional "price" column, the names in several spellings.                *)

Col(name, cell) == <<name, cell>>

\* the choices for one column: <<>> stands for a row without the column
DateCols ==
    {<<>>, <<Col(t_date, <<>>)>>}
    \cup {<<Col(n, <<"0", "1", "/", "0", "2", "/", "2", "0", "2", "6">>)>> : n \in {t_Date, t_date, <<" ", "D", "A", "T", "E", " ">>}}

ProductCols ==
    {<<>>, <<Col(<<"P", "R", "O", "D", "U", "C", "T">>, <<>>)>>}
    \cup {<<Col(n, <<"W", "i", "d", "g", "e", "t">>)>> : n \in {t_Product, t_product}}

QuantityCols ==
    {<<Col(n, c)>> : n \in {t_Quantity, t_quantity, <<" ", "Q", "U", "A", "N", "T", "I", "T", "Y">>, <<"Q", "t", "y">>},
                     c \in {<<"1", "0">>, <<"-", "5">>, <<>>, <<"a", "b", "c">>}}

QtyCols == {<<>>, <<Col(t_qty, <<"7">>)>>}

RevenueCols ==
    {<<Col(n, c)>> : n \in {t_Revenue, t_revenue, <<"A", "m", "o", "u", "n", "t">>, <<"P", "R", "I", "C", "E", " ">>},
                     c \in {<<"$", "1", ",", "2", "0", "0">>, <<"-", "3", ".", "5">>, <<>>}}

PriceCols == {<<>>, <<Col(t_price, <<"9">>)>>}

RawRows ==
    {d \o p \o q \o q2 \o r \o r2 :
        d \in DateCols, p \in ProductCols, q \in QuantityCols, q2 \in QtyCols,
        r \in RevenueCols, r2 \in PriceCols}

\* before any normalizer has run
NoRecord == [date |-> StringValue(<<>>)]

\* src/app.js: the 'data' event of /upload for one row
ServerData ==
    /\ normPc = "row"
    /\ normOut' = serverRecord(rawRow)
    /\ normPc' = "server"
    /\ UNCHANGED <<rawRow, envVars, numVars, dateVars, anaVars, upVars, mvVars, ccVars>>

\* src/unnamed/part_001: the 'data' event of the alternate /upload for one row
AltData ==
    /\ normPc = "row"
    /\ normOut' = altRecord(rawRow)
    /\ normPc' = "alt"
    /\ UNCHANGED <<rawRow, envVars, numVars, dateVars, anaVars, upVars, mvVars, ccVars>>

\* src/public/script.js: one turn of the row loop of parseCSVText
ClientRow ==
    /\ normPc = "row"
    /\ normOut' = IF clientKeeps(processedRow(rawRow)) THEN processedRow(rawRow)
                  ELSE NoRecord
    /\ normPc' = IF clientKeeps(processedRow(rawRow)) THEN "client" ELSE "dropped"
    /\ UNCHANGED <<rawRow, envVars, numVars, dateVars, anaVars, upVars, mvVars, ccVars>>

----------------------------------------------------------------------------
(* The inputs of the analytics: arrays of at most MaxRecords records, each *)
(* a record the /upload normalizer makes of a row.                         *)

MaxRecords == 3

Rec(date, product, quantity, revenue) ==
    serverRecord(<<Col(t_Date, date), Col(t_Product, product),
                   Col(t_Quantity, quantity), Col(t_Revenue, revenue)>>)

t_Jan5 == <<"J", "a", "n", " ", "5", " ", "2", "0", "2", "6">>

AnaRecords ==
    { Rec(<<"0", "1", "/", "0", "1", "/", "2", "0", "2", "6">>, <<"W", "i", "d", "g", "e", "t">>, <<"1", "0">>, <<"1", "2", "0", "0">>),
      Rec(<<"0", "1", "/", "0", "2", "/", "2", "0", "2", "6">>, <<"W", "i", "d", "g", "e", "t">>, <<"1", "5">>, <<"1", "8", "0", "0">>),
      Rec(<<"0", "1", "/", "0", "2", "/", "2", "0", "2", "6">>, <<"G", "a", "d", "g", "e", "t">>, <<"5">>, <<"0">>),
      Rec(<<"1", "3", "/", "0", "1", "/", "2", "0", "2", "6">>, <<"c", "o", "n", "s", "t", "r", "u", "c", "t", "o", "r">>, <<"7">>, <<"7", "0">>),
      Rec(t_Jan5, <<"G", "a", "d", "g", "e", "t">>, <<"3">>, <<"2", ".", "5">>),
      Rec(<<"2", "0", "2", "5", "-", "1", "2", "-", "3", "1">>, <<>>, <<"0", ".", "5">>, <<"$", "1", ",", "0", "0", "0">>),
      Rec(<<"3", "1", "/", "1", "2", "/", "1", "9", "6", "9">>, <<"W", "i", "d", "g", "e", "t">>, <<"4">>, <<"4", "0">>),
      Rec(<<>>, <<>>, <<>>, <<>>) }

\* records of one day at different times of the day (one read by Date.parse,
\* one at midnight) and a record of another day
TimeOfDayRecords ==
    { Rec(t_Jan5, <<"G", "a", "d", "g", "e", "t">>, <<"3">>, <<"2", ".", "5">>),
      Rec(<<"5", "/", "1", "/", "2", "0", "2", "6">>, <<"W", "i", "d", "g", "e", "t">>, <<"1">>, <<"1">>),
      Rec(<<"0", "1", "/", "0", "2", "/", "2", "0", "2", "6">>, <<"W", "i", "d", "g", "e", "t">>, <<"1", "5">>, <<"1", "8", "0", "0">>) }

\* arrays of more products than topProducts keeps: product i of array k has
\* the revenue 10 * ((i * k mod (NumProducts + 1)) div 2), so that the arrays
\* differ in the order of the revenues and every array has ties
NumProducts == 12

ManyProducts(k) ==
    [i \in 1..NumProducts |->
        Rec(<<"0", "1", "/", "0", "1", "/", "2", "0", "2", "6">>, <<"P">> \o IntToText(i), <<"1">>,
            IntToText((((i * k) % (NumProducts + 1)) \div 2) * 10))]

\* the texts of the records that Date.parse is consulted for, and its answers
AnaFreeTexts == {t_Jan5}

AnaParseAnswers == {NaN, Rat(20458 * HoursPerDay + 10, 1)}

SeqsUpTo(S, len) == UNION {[1..n -> S] : n \in 0..len}

\* src/app.js: one call calculateAnalytics(anaData)
CallCalculateAnalytics ==
    /\ anaPc = "call"
    /\ anaOut' = calculateAnalytics(anaData)
    /\ anaPc' = "done"
    /\ UNCHANGED <<anaData, envVars, numVars, dateVars, normVars, upVars, mvVars, ccVars>>

----------------------------------------------------------------------------
(* The inputs of an upload: no file, a file without a line, or a header    *)
(* line and at most MaxRows rows under it.                                 *)

MaxRows == 3

UpHeaders3 == <<t_Date, t_Quantity, t_Revenue>>

UpHeaders4 == <<t_date, t_Product, t_quantity, t_revenue>>

Row(cells) == [cells |-> cells, error |-> ""]

\* a row whose normalization raises
RaisingRow(cells, message) == [cells |-> cells, error |-> message]

UpRows3 ==
    { Row(<<<<"0", "1", "/", "0", "1", "/", "2", "0", "2", "6">>, <<"1", "0">>, <<"1", "2", "0", "0">>>>),
      Row(<<<<"0", "1", "/", "0", "2", "/", "2", "0", "2", "6">>, <<"1", "5">>, <<"1", "8", "0", "0">>>>),
      Row(<<<<>>, <<"a", "b", "c">>, <<>>>>) }

UpRows4 ==
    { Row(<<<<"2", "0", "2", "5", "-", "1", "2", "-", "3", "1">>, <<"W", "i", "d", "g", "e", "t">>, <<"0">>, <<"5", "0">>>>),
      Row(<<<<"3", "1", "/", "1", "2", "/", "1", "9", "6", "9">>, <<"G", "a", "d", "g", "e", "t">>, <<"4">>, <<"4", "0">>>>),
      Row(<<t_Jan5, <<"G", "a", "d", "g", "e", "t">>, <<"3">>, <<"2", ".", "5">>>>) }

UpRaising3 == {RaisingRow(<<<<"0", "1", "/", "0", "2", "/", "2", "0", "2", "6">>, <<"1", "5">>, <<"1", "8", "0", "0">>>>, "unexpected structure")}

UpRaising4 == {RaisingRow(<<<<"2", "0", "2", "5", "-", "1", "2", "-", "3", "1">>, <<"W", "i", "d", "g", "e", "t">>, <<"0">>, <<"5", "0">>>>, "unexpected structure")}

FileOf(headers, rows) ==
    [present |-> TRUE, header |-> TRUE, headers |-> headers, rows |-> rows]

EmptyFile == [present |-> TRUE, header |-> FALSE, headers |-> <<>>, rows |-> <<>>]

\* the files a browser can hand to the client's parser
ClientFiles ==
    {NoFile, EmptyFile}
    \cup {FileOf(UpHeaders3, rows) : rows \in SeqsUpTo(UpRows3, MaxRows)}
    \cup {FileOf(UpHeaders4, rows) : rows \in SeqsUpTo(UpRows4, MaxRows)}

\* the files a request can carry to the server
ServerFiles ==
    {NoFile, EmptyFile}
    \cup {FileOf(UpHeaders3, rows) : rows \in SeqsUpTo(UpRows3 \cup UpRaising3, MaxRows)}
    \cup {FileOf(UpHeaders4, rows) : rows \in SeqsUpTo(UpRows4 \cup UpRaising4, MaxRows)}

\* the messages of the CSV stream's 'error' event
StreamErrors == {"Row exceeds the maximum size"}

\* the messages of an exception raised in the handler's own statements
HandlerErrors == {"The stream could not be created"}

\* src/app.js: the /upload handler up to the start of the stream
UploadRequest ==
    /\ upSide = "server" /\ upPc = "request"
    /\ IF ~upFile.present
       THEN /\ responses' = Append(responses, noFileResponse)
            /\ upPc' = "rejected"
       ELSE /\ responses' = responses
            /\ upPc' = "streaming"
    /\ results' = <<>>
    /\ hasErrors' = FALSE
    /\ errorMessages' = <<>>
    /\ UNCHANGED <<upSide, upFile, upPos, tempFile, unlinks, salesData, alerts, charts, summary>>
    /\ UNCHANGED <<envVars, numVars, dateVars, normVars, anaVars, mvVars, ccVars>>

\* the 'data' event with a catch that records nothing
UploadData_Unrecorded ==
    /\ upSide = "server" /\ upPc = "streaming"
    /\ upPos < Len(upFile.rows)
    /\ IF upFile.rows[upPos + 1].error # ""
       THEN results' = results
       ELSE results' =
                Append(results,
                       serverRecord(RowObject(upFile.headers,
                                              upFile.rows[upPos + 1].cells)))
    /\ upPos' = upPos + 1
    /\ UNCHANGED <<upSide, upFile, upPc, tempFile, unlinks, hasErrors, errorMessages, responses,
                   salesData, alerts, charts, summary>>
    /\ UNCHANGED <<envVars, numVars, dateVars, normVars, anaVars, mvVars, ccVars>>

\* src/app.js: the 'data' event for the next row
UploadData ==
    /\ upSide = "server" /\ upPc = "streaming"
    /\ upPos < Len(upFile.rows)
    /\ IF upFile.rows[upPos + 1].error # ""
       THEN /\ hasErrors' = TRUE
            /\ errorMessages' =
                   Append(errorMessages, warning(upFile.rows[upPos + 1].error))
            /\ results' = results
       ELSE /\ results' =
                   Append(results,
                          serverRecord(RowObject(upFile.headers,
                                                 upFile.rows[upPos + 1].cells)))
            /\ UNCHANGED <<hasErrors, errorMessages>>
    /\ upPos' = upPos + 1
    /\ UNCHANGED <<upSide, upFile, upPc, tempFile, unlinks, responses, salesData, alerts,
                   charts, summary>>
    /\ UNCHANGED <<envVars, numVars, dateVars, normVars, anaVars, mvVars, ccVars>>

\* src/app.js: the 'end' event
UploadEnd ==
    /\ upSide = "server" /\ upPc = "streaming"
    /\ upPos = Len(upFile.rows)
    /\ tempFile' = FALSE
    /\ unlinks' = unlinks + 1
    /\ results' = sortedResults(results)
    /\ responses' = Append(responses, endResponse(results', hasErrors, errorMessages))
    /\ upPc' = "ended"
    /\ UNCHANGED <<upSide, upFile, upPos, hasErrors, errorMessages, salesData,
                   alerts, charts, summary>>
    /\ UNCHANGED <<envVars, numVars, dateVars, normVars, anaVars, mvVars, ccVars>>

\* the 'error' event with a handler that sends nothing
UploadError_Unanswered ==
    /\ upSide = "server" /\ upPc = "streaming"
    /\ upPc' = "failed"
    /\ UNCHANGED <<upSide, upFile, upPos, tempFile, unlinks, results, hasErrors, errorMessages,
                   responses, salesData, alerts, charts, summary>>
    /\ UNCHANGED <<envVars, numVars, dateVars, normVars, anaVars, mvVars, ccVars>>

\* src/app.js: the 'error' event of the CSV stream, which ends it
UploadError ==
    /\ upSide = "server" /\ upPc = "streaming"
    /\ \E message \in StreamErrors :
           responses' = Append(responses, streamErrorResponse(message))
    /\ upPc' = "failed"
    /\ UNCHANGED <<upSide, upFile, upPos, tempFile, unlinks, results, hasErrors, errorMessages,
                   salesData, alerts, charts, summary>>
    /\ UNCHANGED <<envVars, numVars, dateVars, normVars, anaVars, mvVars, ccVars>>

\* src/app.js: an exception raised while the handler sets the stream up,
\* caught by the handler's own catch before any event of the stream
UploadException ==
    /\ upSide = "server" /\ upPc = "request"
    /\ upFile.present
    /\ \E message \in HandlerErrors :
           responses' = Append(responses, exceptionResponse(message))
    /\ upPc' = "failed"
    /\ results' = <<>>
    /\ hasErrors' = FALSE
    /\ errorMessages' = <<>>
    /\ UNCHANGED <<upSide, upFile, upPos, tempFile, unlinks, salesData, alerts, charts, summary>>
    /\ UNCHANGED <<envVars, numVars, dateVars, normVars, anaVars, mvVars, ccVars>>

\* src/public/script.js: the click on the upload button
ClientUpload ==
    /\ upSide = "client" /\ upPc = "request"
    /\ IF ~upFile.present
       THEN /\ alerts' = <<"Please upload a CSV file.">>
            /\ UNCHANGED <<salesData, charts, summary>>
       ELSE IF ~upFile.header
       THEN /\ alerts' = <<"Error processing CSV file: CSV file is empty">>
            /\ UNCHANGED <<salesData, charts, summary>>
       ELSE /\ salesData' = parseCSVText(upFile)
            /\ alerts' = visualizeData(salesData').alerts
            /\ charts' = visualizeData(salesData').charts
            /\ summary' = visualizeData(salesData').summary
    /\ upPc' = "ended"
    /\ UNCHANGED <<upSide, upFile, upPos, tempFile, unlinks, results, hasErrors, errorMessages,
                   responses>>
    /\ UNCHANGED <<envVars, numVars, dateVars, normVars, anaVars, mvVars, ccVars>>

----------------------------------------------------------------------------
(* The inputs of performAnalytics: arrays of at most MaxSales sales, each  *)
(* what the first /upload answers for a row.  The dates are written in the *)
(* ISO form, which Date.parse reads in one way only.                       *)

MaxSales == 3

Sale(date, quantity, revenue) ==
    salesRecord(<<Col(t_Date, date), Col(t_Product, <<"W", "i", "d", "g", "e", "t">>),
                  Col(t_Quantity, quantity), Col(t_Revenue, revenue)>>)

Sales ==
    { Sale(<<"2", "0", "2", "6", "-", "0", "1", "-", "0", "1">>, <<"1", "0">>, <<"1", "2", "0", "0">>),
      Sale(<<"2", "0", "2", "6", "-", "0", "1", "-", "0", "2">>, <<"2", "0">>, <<"5">>),
      Sale(<<"2", "0", "2", "6", "-", "0", "1", "-", "0", "3">>, <<"3", "0">>, <<"0", ".", "5">>),
      Sale(<<"2", "0", "2", "5", "-", "1", "2", "-", "3", "1">>, <<"-", "5">>, <<"x">>),
      Sale(<<>>, <<"a", "b", "c">>, <<>>) }

\* Date.parse of the ISO dates of the sales
IsoDates ==
    [t \in {<<"2", "0", "2", "6", "-", "0", "1", "-", "0", "1">>, <<"2", "0", "2", "6", "-", "0", "1", "-", "0", "2">>, <<"2", "0", "2", "6", "-", "0", "1", "-", "0", "3">>, <<"2", "0", "2", "5", "-", "1", "2", "-", "3", "1">>} |->
        Rat(DaysFromCivil(IntOf(SubSeq(t, 1, 4)), IntOf(SubSeq(t, 6, 7)),
                          IntOf(SubSeq(t, 9, 10))) * HoursPerDay, 1)]

\* src/unnamed/part_000: one call performAnalytics(mvData)
CallPerformAnalytics ==
    /\ mvPc = "call"
    /\ mvOut' = performAnalytics(mvData)
    /\ mvPc' = "done"
    /\ UNCHANGED <<mvData, envVars, numVars, dateVars, normVars, anaVars, upVars, ccVars>>

----------------------------------------------------------------------------
(* src/app.js : several /upload requests at once.  Each request has the    *)
(* variables of its own call of the handler (results, hasErrors,           *)
(* errorMessages) and its own CSV stream; the requests share the uploads   *)
(* directory, where multer stores each file under the name                 *)
(* `${Date.now()}-${file.originalname}` before the handler runs.  A        *)
(* request is [stamp, pc, rows, pos, results, hasErrors, errorMessages,    *)
(* responses]: rows is what its stream reads from the stored file.         *)

NumRequests == 2

Requests == 1..NumRequests

\* the rows of the files the requests upload, all named sales.csv
ConcurrentRows ==
    << Row(<<<<"0", "1", "/", "0", "1", "/", "2", "0", "2", "6">>, <<"1", "0">>, <<"1", "2", "0", "0">>>>),
       Row(<<<<"0", "1", "/", "0", "2", "/", "2", "0", "2", "6">>, <<"1", "5">>, <<"1", "8", "0", "0">>>>),
       Row(<<<<>>, <<"a", "b", "c">>, <<>>>>) >>

\* the file request r uploads: one row, and a row that raises after it in
\* every second file
OwnRows(r) ==
    <<ConcurrentRows[((r - 1) % Len(ConcurrentRows)) + 1]>>
    \o (IF r % 2 = 0
        THEN <<RaisingRow(<<<<"0", "1", "/", "0", "2", "/", "2", "0", "2", "6">>, <<"1", "5">>, <<"1", "8", "0", "0">>>>, "unexpected structure")>>
        ELSE <<>>)

\* `${Date.now()}-${file.originalname}`
uniqueName(stamp) == <<stamp, "sales.csv">>

NewRequest ==
    [stamp |-> 0, pc |-> "new", rows |-> <<>>, pos |-> 0, results |-> <<>>,
     hasErrors |-> FALSE, errorMessages |-> <<>>, responses |-> <<>>]

\* the latest time a file was stored at, 1 before any
LatestStamp ==
    IF \A r \in Requests : requests[r].stamp = 0 THEN 1
    ELSE CHOOSE t \in {requests[r].stamp : r \in Requests} :
             \A r \in Requests : requests[r].stamp <= t

\* the process has ended on an 'error' event nobody listens for: the
\* requests not yet answered never are
Crashed(reqs) ==
    [r \in Requests |->
        IF reqs[r].pc \in {"stored", "streaming"} THEN [reqs[r] EXCEPT !.pc = "crashed"]
        ELSE reqs[r]]

\* multer's disk storage: the file of a request is written under its unique
\* name, in the same millisecond as the file stored last or in the next one
StoreFile ==
    \E r \in Requests, stamp \in {LatestStamp, LatestStamp + 1} :
        /\ requests[r].pc = "new"
        /\ \A q \in Requests : requests[q].pc # "crashed"
        /\ uploads' = (uniqueName(stamp) :> OwnRows(r)) @@ uploads
        /\ requests' = [requests EXCEPT ![r].stamp = stamp, ![r].pc = "stored"]
        /\ UNCHANGED <<envVars, numVars, dateVars, normVars, anaVars, upVars, mvVars>>

\* the handler of a request: fs.createReadStream(req.file.path).pipe(csv());
\* the 'error' of a read stream whose file is gone has no listener
BeginUpload ==
    \E r \in Requests :
        /\ requests[r].pc = "stored"
        /\ IF uniqueName(requests[r].stamp) \in DOMAIN uploads
           THEN requests' = [requests EXCEPT ![r].pc = "streaming",
                                             ![r].rows = uploads[uniqueName(requests[r].stamp)]]
           ELSE requests' = Crashed(requests)
        /\ UNCHANGED uploads
        /\ UNCHANGED <<envVars, numVars, dateVars, normVars, anaVars, upVars, mvVars>>

\* the 'data' event of a request's stream for its next row
RowEvent ==
    \E r \in Requests :
        /\ requests[r].pc = "streaming"
        /\ requests[r].pos < Len(requests[r].rows)
        /\ IF requests[r].rows[requests[r].pos + 1].error # ""
           THEN requests' =
                    [requests EXCEPT
                        ![r].pos = @ + 1,
                        ![r].hasErrors = TRUE,
                        ![r].errorMessages =
                            Append(@, warning(requests[r].rows[requests[r].pos + 1].error))]
           ELSE requests' =
                    [requests EXCEPT
                        ![r].pos = @ + 1,
                        ![r].results =
                            Append(@, serverRecord(RowObject(UpHeaders3,
                                          requests[r].rows[requests[r].pos + 1].cells)))]
        /\ UNCHANGED uploads
        /\ UNCHANGED <<envVars, numVars, dateVars, normVars, anaVars, upVars, mvVars>>

\* the 'end' event of a request's stream: unlink, sort, analyse, answer
EndEvent ==
    \E r \in Requests :
        /\ requests[r].pc = "streaming"
        /\ requests[r].pos = Len(requests[r].rows)
        /\ uploads' = [path \in DOMAIN uploads \ {uniqueName(requests[r].stamp)} |->
                          uploads[path]]
        /\ requests' =
               [requests EXCEPT
                   ![r].pc = "ended",
                   ![r].results = sortedResults(@),
                   ![r].responses =
                       Append(@, endResponse(sortedResults(requests[r].results),
                                             requests[r].hasErrors,
                                             requests[r].errorMessages))]
        /\ UNCHANGED <<envVars, numVars, dateVars, normVars, anaVars, upVars, mvVars>>

\* the 'error' event of a request's CSV stream
ErrorEvent ==
    \E r \in Requests, message \in StreamErrors :
        /\ requests[r].pc = "streaming"
        /\ requests' = [requests EXCEPT
                           ![r].pc = "failed",
                           ![r].responses = Append(@, streamErrorResponse(message))]
        /\ UNCHANGED uploads
        /\ UNCHANGED <<envVars, numVars, dateVars, normVars, anaVars, upVars, mvVars>>

----------------------------------------------------------------------------
(* Specifications: one per component, the other components idle.           *)

\* a text is about to be coerced; the other components are idle
NumInit ==
    /\ numText \in NumTexts
    /\ numOut = NaN
    /\ numPc = "call"
    /\ dateParse = <<>> /\ dateNow = NaN
    /\ dateText = <<>> /\ dateOut = NaN /\ datePc = "idle"
    /\ rawRow = <<>> /\ normOut = NoRecord /\ normPc = "idle"
    /\ anaData = Undefined /\ anaOut = <<>> /\ anaPc = "idle"
    /\ upSide = "idle" /\ upFile = NoFile /\ upPos = 0 /\ upPc = "idle"
    /\ tempFile = FALSE /\ unlinks = 0 /\ results = <<>> /\ hasErrors = FALSE
    /\ errorMessages = <<>> /\ responses = <<>> /\ salesData = <<>>
    /\ alerts = <<>> /\ charts = <<>> /\ summary = NoSummary
    /\ mvData = <<>> /\ mvOut = <<>> /\ mvPc = "idle"
    /\ uploads = <<>> /\ requests = <<>>

\* a text is about to be read as a date, Date.parse and the clock fixed; the other components are idle
DateInit ==
    /\ dateText \in DateTexts
    /\ dateParse \in [{Trim(dateText)} ->
                        IF DecidedWithoutDateParse(dateText) THEN {NaN}
                        ELSE DateParseAnswers]
    /\ dateNow \in NowTimes
    /\ dateOut = NaN
    /\ datePc = "call"
    /\ numText = <<>> /\ numOut = NaN /\ numPc = "idle"
    /\ rawRow = <<>> /\ normOut = NoRecord /\ normPc = "idle"
    /\ anaData = Undefined /\ anaOut = <<>> /\ anaPc = "idle"
    /\ upSide = "idle" /\ upFile = NoFile /\ upPos = 0 /\ upPc = "idle"
    /\ tempFile = FALSE /\ unlinks = 0 /\ results = <<>> /\ hasErrors = FALSE
    /\ errorMessages = <<>> /\ responses = <<>> /\ salesData = <<>>
    /\ alerts = <<>> /\ charts = <<>> /\ summary = NoSummary
    /\ mvData = <<>> /\ mvOut = <<>> /\ mvPc = "idle"
    /\ uploads = <<>> /\ requests = <<>>

\* a row is about to be normalized; the other components are idle
NormInit ==
    /\ rawRow \in RawRows
    /\ normOut = NoRecord
    /\ normPc = "row"
    /\ dateParse = <<>>
    /\ dateNow \in NowTimes
    /\ numText = <<>> /\ numOut = NaN /\ numPc = "idle"
    /\ dateText = <<>> /\ dateOut = NaN /\ datePc = "idle"
    /\ anaData = Undefined /\ anaOut = <<>> /\ anaPc = "idle"
    /\ upSide = "idle" /\ upFile = NoFile /\ upPos = 0 /\ upPc = "idle"
    /\ tempFile = FALSE /\ unlinks = 0 /\ results = <<>> /\ hasErrors = FALSE
    /\ errorMessages = <<>> /\ responses = <<>> /\ salesData = <<>>
    /\ alerts = <<>> /\ charts = <<>> /\ summary = NoSummary
    /\ mvData = <<>> /\ mvOut = <<>> /\ mvPc = "idle"
    /\ uploads = <<>> /\ requests = <<>>

\* an array is about to be analysed; the other components are idle
AnaInit ==
    /\ anaData \in {Undefined}
                   \cup {Array(items) : items \in SeqsUpTo(AnaRecords, MaxRecords)}
                   \cup {Array(ManyProducts(k)) : k \in 1..NumProducts}
                   \cup {Array(items) : items \in [1..Cardinality(TimeOfDayRecords) -> TimeOfDayRecords]}
    /\ anaOut = <<>>
    /\ anaPc = "call"
    /\ dateParse \in [AnaFreeTexts -> AnaParseAnswers]
    /\ dateNow = NaN
    /\ numText = <<>> /\ numOut = NaN /\ numPc = "idle"
    /\ dateText = <<>> /\ dateOut = NaN /\ datePc = "idle"
    /\ rawRow = <<>> /\ normOut = NoRecord /\ normPc = "idle"
    /\ upSide = "idle" /\ upFile = NoFile /\ upPos = 0 /\ upPc = "idle"
    /\ tempFile = FALSE /\ unlinks = 0 /\ results = <<>> /\ hasErrors = FALSE
    /\ errorMessages = <<>> /\ responses = <<>> /\ salesData = <<>>
    /\ alerts = <<>> /\ charts = <<>> /\ summary = NoSummary
    /\ mvData = <<>> /\ mvOut = <<>> /\ mvPc = "idle"
    /\ uploads = <<>> /\ requests = <<>>

\* a file is about to be uploaded to the server or read by the client; the
\* other components are idle
UploadInit ==
    /\ upSide \in {"server", "client"}
    /\ upFile \in (IF upSide = "server" THEN ServerFiles ELSE ClientFiles)
    /\ upPos = 0
    /\ upPc = "request"
    /\ tempFile = (upSide = "server" /\ upFile.present)
    /\ unlinks = 0
    /\ results = <<>> /\ hasErrors = FALSE /\ errorMessages = <<>>
    /\ responses = <<>>
    /\ salesData = <<>> /\ alerts = <<>> /\ charts = <<>> /\ summary = NoSummary
    /\ dateParse \in [AnaFreeTexts -> AnaParseAnswers]
    /\ dateNow \in NowTimes
    /\ numText = <<>> /\ numOut = NaN /\ numPc = "idle"
    /\ dateText = <<>> /\ dateOut = NaN /\ datePc = "idle"
    /\ rawRow = <<>> /\ normOut = NoRecord /\ normPc = "idle"
    /\ anaData = Undefined /\ anaOut = <<>> /\ anaPc = "idle"
    /\ mvData = <<>> /\ mvOut = <<>> /\ mvPc = "idle"
    /\ uploads = <<>> /\ requests = <<>>

\* an array of sales is about to be analysed by the charting client; the
\* other components are idle
MovingInit ==
    /\ mvData \in SeqsUpTo(Sales, MaxSales)
    /\ mvOut = <<>>
    /\ mvPc = "call"
    /\ dateParse = IsoDates
    /\ dateNow = NaN
    /\ numText = <<>> /\ numOut = NaN /\ numPc = "idle"
    /\ dateText = <<>> /\ dateOut = NaN /\ datePc = "idle"
    /\ rawRow = <<>> /\ normOut = NoRecord /\ normPc = "idle"
    /\ anaData = Undefined /\ anaOut = <<>> /\ anaPc = "idle"
    /\ upSide = "idle" /\ upFile = NoFile /\ upPos = 0 /\ upPc = "idle"
    /\ tempFile = FALSE /\ unlinks = 0 /\ results = <<>> /\ hasErrors = FALSE
    /\ errorMessages = <<>> /\ responses = <<>> /\ salesData = <<>>
    /\ alerts = <<>> /\ charts = <<>> /\ summary = NoSummary
    /\ uploads = <<>> /\ requests = <<>>

\* several uploads are about to arrive at the server; the other components
\* are idle
ConcurrentInit ==
    /\ requests = [r \in Requests |-> NewRequest]
    /\ uploads = <<>>
    /\ dateParse = <<>>
    /\ dateNow = NaN
    /\ numText = <<>> /\ numOut = NaN /\ numPc = "idle"
    /\ dateText = <<>> /\ dateOut = NaN /\ datePc = "idle"
    /\ rawRow = <<>> /\ normOut = NoRecord /\ normPc = "idle"
    /\ anaData = Undefined /\ anaOut = <<>> /\ anaPc = "idle"
    /\ upSide = "idle" /\ upFile = NoFile /\ upPos = 0 /\ upPc = "idle"
    /\ tempFile = FALSE /\ unlinks = 0 /\ results = <<>> /\ hasErrors = FALSE
    /\ errorMessages = <<>> /\ responses = <<>> /\ salesData = <<>>
    /\ alerts = <<>> /\ charts = <<>> /\ summary = NoSummary
    /\ mvData = <<>> /\ mvOut = <<>> /\ mvPc = "idle"

NumNext == CallParseNumber

SpecNumber ==
    NumInit /\ [][NumNext]_vars

DateNext == CallServerParseDate \/ CallClientParseDate

SpecDate == DateInit /\ [][DateNext]_vars

NormNext == ServerData \/ AltData \/ ClientRow

SpecNormalize == NormInit /\ [][NormNext]_vars

AnaNext == CallCalculateAnalytics

SpecAnalytics == AnaInit /\ [][AnaNext]_vars

UploadNext ==
    \/ UploadRequest \/ UploadException \/ UploadData \/ UploadEnd \/ UploadError
    \/ ClientUpload

SpecUpload == UploadInit /\ [][UploadNext]_vars

\* the positions of an upload
UploadPcs == {"request", "streaming", "rejected", "ended", "failed"}

\* a step that moves a pending upload on: the handler runs, a row is
\* delivered, or the stream ends or fails
Delivery ==
    /\ upPc \in {"request", "streaming"}
    /\ upPc' \in UploadPcs
    /\ upPos' \in {upPos, upPos + 1}

\* the event loop runs the handler of a request that arrived and delivers
\* the events of a stream that was started, up to its 'end' or 'error'
SpecUploadLive ==
    UploadInit /\ [][UploadNext]_vars /\ WF_<<upPc, upPos>>(Delivery)

MovingNext == CallPerformAnalytics

ConcurrentNext == StoreFile \/ BeginUpload \/ RowEvent \/ EndEvent \/ ErrorEvent

SpecConcurrent == ConcurrentInit /\ [][ConcurrentNext]_vars

SpecMoving == MovingInit /\ [][MovingNext]_vars

----------------------------------------------------------------------------
(* C1 *)

\* the text with every "$" and "," removed and the surrounding white space cut
Cleaned(text) == Trim(SelectSeq(text, LAMBDA c : c # "$" /\ c # ","))

\* C1: parseNumber never raises and returns a number >= 0: 0 when the text is
\* empty or does not parse as a number once "$", "," and the surrounding
\* white space are removed, and the absolute value of the parsed number
\* otherwise ("$1,200" gives 1200, "" gives 0, "-5" gives 5).
C1_ParseNumberNonNegative ==
    numPc = "parseNumber" =>
        /\ NonNegative(numOut)
        /\ (Cleaned(numText) = <<>> \/ IsNaN(ParseFloat(Cleaned(numText))))
               => numOut = Zero
        /\ ~(Cleaned(numText) = <<>> \/ IsNaN(ParseFloat(Cleaned(numText))))
               => /\ numOut \in {ParseFloat(Cleaned(numText)),
                                 NumDiv(ParseFloat(Cleaned(numText)), Rat(-1, 1))}
                  /\ numOut.n >= 0
        /\ numText = <<"$", "1", ",", "2", "0", "0">> => numOut = Rat(1200, 1)
        /\ numText = <<>> => numOut = Zero
        /\ numText = <<"-", "5">> => numOut = Rat(5, 1)

\* a negative amount with a currency sign has been coerced
C1_Witness ==
    /\ numPc = "parseNumber"
    /\ numText = <<"-", "$", "5">>
    /\ numOut = Rat(5, 1)

----------------------------------------------------------------------------
(* C2 .. C5: the date disambiguation *)

\* the three captures of the trimmed text under a pattern, <<>> for no match
DMY4(text) == Match3(Trim(text), {1, 2}, {1, 2}, {4})

DMY2(text) == Match3(Trim(text), {1, 2}, {1, 2}, {2})

Y4MD(text) == Match3(Trim(text), {4}, {1, 2}, {1, 2})

\* year y, month m, day d name a day of the calendar
RealDay(y, m, d) == m \in 1..12 /\ d \in 1..DaysInMonth(y, m)

\* the date is the local midnight of year y, month m, day d
IsDay(date, y, m, d) ==
    /\ ~IsNaN(date)
    /\ date.n % HoursPerDay = 0
    /\ CivilOf(date) = [y |-> y, m |-> m, d |-> d]

\* C2: parseDate is total: for every text, the server's and the client's
\* parseDate return a valid calendar date, never an Invalid Date.
C2_ParseDateTotal ==
    datePc \in {"server", "client"} => dateOut.k = "fin"

\* segments far out of range have been carried over into a valid date
C2_Witness ==
    /\ datePc = "client"
    /\ dateText = <<"9", "9", "/", "9", "9", "/", "9", "9", "9", "9">>
    /\ dateOut.k = "fin"

\* C3: for every text YYYY-MM-DD or YYYY/MM/DD that names a real calendar
\* day, the server's parseDate returns year = segment 1, month = segment 2,
\* day = segment 3.
C3_YearFirstExact ==
    (datePc = "server" /\ Y4MD(dateText) # <<>>
       /\ RealDay(IntOf(Y4MD(dateText)[1]), IntOf(Y4MD(dateText)[2]),
                  IntOf(Y4MD(dateText)[3])))
    => IsDay(dateOut, IntOf(Y4MD(dateText)[1]), IntOf(Y4MD(dateText)[2]),
             IntOf(Y4MD(dateText)[3]))

\* C4: for every day/month/4-digit-year text whose month is in 1..12 and
\* whose day is a valid day of that month, the server's parseDate returns
\* day = segment 1, month = segment 2, year = segment 3.
C4_DayFirstExact ==
    (datePc = "server" /\ DMY4(dateText) # <<>>
       /\ RealDay(IntOf(DMY4(dateText)[3]), IntOf(DMY4(dateText)[2]),
                  IntOf(DMY4(dateText)[1])))
    => IsDay(dateOut, IntOf(DMY4(dateText)[3]), IntOf(DMY4(dateText)[2]),
             IntOf(DMY4(dateText)[1]))

\* the text is blank, or of none of the three numeric shapes and not read
\* by the platform's parser either
Unparseable ==
    \/ Trim(dateText) = <<>>
    \/ /\ DMY4(dateText) = <<>> /\ DMY2(dateText) = <<>> /\ Y4MD(dateText) = <<>>
       /\ IsNaN(DateParse(Trim(dateText)))

\* C5: for a blank text, or a text of none of the three numeric shapes that
\* the platform's parser rejects too, the server's parseDate returns the
\* epoch start and the client's parseDate returns the current date.
C5_FallbackValues ==
    /\ (datePc = "server" /\ Unparseable) => dateOut = Epoch
    /\ (datePc = "client" /\ Unparseable) => dateOut = dateNow

\* the client has answered the clock for a text nothing could read
C5_Witness ==
    /\ datePc = "client"
    /\ dateText = <<"a", "b", "c">>
    /\ IsNaN(DateParse(dateText))
    /\ dateOut = dateNow
    /\ dateOut # Epoch

\* C18: for a day/month/4-digit-year text the server's parseDate reads the
\* text month first (month = segment 1, day = segment 2) exactly when
\* segment 2 is outside 1..12; whenever segment 2 is in 1..12 the date
\* returned has month = segment 2 and year = segment 3.
C18_MonthFirstOnlyForBadMonth ==
    (datePc = "server" /\ DMY4(dateText) # <<>>) =>
        /\ IntOf(DMY4(dateText)[2]) \in 1..12 =>
              /\ ~IsNaN(dateOut)
              /\ CivilOf(dateOut).m = IntOf(DMY4(dateText)[2])
              /\ CivilOf(dateOut).y = IntOf(DMY4(dateText)[3])
        /\ (/\ IntOf(DMY4(dateText)[2]) \notin 1..12
            /\ RealDay(IntOf(DMY4(dateText)[3]), IntOf(DMY4(dateText)[1]),
                       IntOf(DMY4(dateText)[2]))) =>
              IsDay(dateOut, IntOf(DMY4(dateText)[3]), IntOf(DMY4(dateText)[1]),
                    IntOf(DMY4(dateText)[2]))

\* C19: for every text YYYY-MM-DD or YYYY/MM/DD that names a real calendar
\* day, with a day segment of one or two digits, the client's parseDate
\* returns year = segment 1, month = segment 2, day = segment 3.
C19_ClientYearFirstExact ==
    (datePc = "client" /\ Y4MD(dateText) # <<>>
       /\ RealDay(IntOf(Y4MD(dateText)[1]), IntOf(Y4MD(dateText)[2]),
                  IntOf(Y4MD(dateText)[3])))
    => IsDay(dateOut, IntOf(Y4MD(dateText)[1]), IntOf(Y4MD(dateText)[2]),
             IntOf(Y4MD(dateText)[3]))

\* C20: for every text of the day/month/4-digit-year or the
\* day/month/2-digit-year shape, whatever its segments, the client's
\* parseDate and the server's parseDate return the same calendar date.
C20_ClientAgreesWithServer ==
    (DMY4(dateText) # <<>> \/ DMY2(dateText) # <<>>) =>
        /\ datePc = "server" => dateOut = clientParseDate(dateText)
        /\ datePc = "client" => dateOut = parseDate(dateText)

\* C21 as stated: for every text of three numeric segments whose last has
\* exactly 2 digits, whatever the segments, parseDate returns
\* year = 2000 + segment 3, month = segment 2, day = segment 1.
C21_TwoDigitYearExact ==
    (datePc \in {"server", "client"} /\ DMY2(dateText) # <<>>) =>
        IsDay(dateOut, 2000 + IntOf(DMY2(dateText)[3]), IntOf(DMY2(dateText)[2]),
              IntOf(DMY2(dateText)[1]))

\* C21, amended: for every text of three numeric segments whose last has
\* exactly 2 digits and whose first two name a real day of the year
\* 2000 + segment 3, the server's and the client's parseDate return
\* year = 2000 + segment 3, month = segment 2, day = segment 1; there is no
\* century window.
C21_TwoDigitYearOfRealDay ==
    (datePc \in {"server", "client"} /\ DMY2(dateText) # <<>>
       /\ RealDay(2000 + IntOf(DMY2(dateText)[3]), IntOf(DMY2(dateText)[2]),
                  IntOf(DMY2(dateText)[1])))
    => IsDay(dateOut, 2000 + IntOf(DMY2(dateText)[3]), IntOf(DMY2(dateText)[2]),
             IntOf(DMY2(dateText)[1]))

\* the server has read a year 99 as 2099
C21_Witness ==
    /\ datePc = "server"
    /\ dateText = <<"3", "1", "/", "1", "2", "/", "9", "9">>
    /\ IsDay(dateOut, 2099, 12, 31)

----------------------------------------------------------------------------
(* C6 .. C8: the normalizers *)

CanonName(name) == Trim(ToLowerCase(name))

\* the cell of the last column of that canonical name, <<>> when the row
\* has no such column
ColumnValue(row, alias) ==
    LET at == {i \in 1..Len(row) : CanonName(row[i][1]) = alias}
    IN  IF at = {} THEN <<>>
        ELSE row[CHOOSE i \in at : \A j \in at : j <= i][2]

\* the cell of the first alias that has a non-empty cell, else the default
FirstPresent(row, aliases, default) ==
    LET present == {i \in 1..Len(aliases) : ColumnValue(row, aliases[i]) # <<>>}
    IN  IF present = {} THEN default
        ELSE ColumnValue(row, aliases[CHOOSE i \in present : \A j \in present : i <= j])

C7_AmountsNonNegative ==
    normPc \in {"server", "alt", "client"} =>
        NonNegative(normOut.quantity) /\ NonNegative(normOut.revenue)

UpperChar(c) ==
    IF \E i \in 1..26 : Lower[i] = c
    THEN Upper[CHOOSE i \in 1..26 : Lower[i] = c]
    ELSE c

\* the same row with its column names spelled otherwise: in capitals, in
\* small letters, with spaces around
Respellings(row) ==
    { [i \in 1..Len(row) |-> <<[j \in 1..Len(row[i][1]) |-> UpperChar(row[i][1][j])],
                               row[i][2]>>],
      [i \in 1..Len(row) |-> <<ToLowerCase(row[i][1]), row[i][2]>>],
      [i \in 1..Len(row) |-> <<<<" ">> \o row[i][1] \o <<" ", " ">>, row[i][2]>>] }

\* C8: the /upload normalizer finds its fields by the trimmed, lowercased
\* column names: date from "date"; product from "product", "Unknown" when
\* absent or empty; quantity from the first present (non-empty) of
\* "quantity", "qty"; revenue from the first present of "revenue", "amount",
\* "price"; so a row with its column names respelled in another letter case
\* or with spaces around gives the same record.
C8_FieldsByCanonicalName ==
    normPc = "server" =>
        /\ normOut.date = StringValue(FirstPresent(rawRow, <<t_date>>, <<>>))
        /\ normOut.product = FirstPresent(rawRow, <<t_product>>, t_Unknown)
        /\ normOut.quantity =
              parseNumber(FirstPresent(rawRow, <<t_quantity, t_qty>>, t_0))
        /\ normOut.revenue =
              parseNumber(FirstPresent(rawRow, <<t_revenue, t_amount, t_price>>, t_0))
        /\ \A other \in Respellings(rawRow) : serverRecord(other) = normOut

\* a row whose columns are named " DATE ", "PRODUCT", " QUANTITY", "qty" and
\* "PRICE " has been read: empty product, quantity from " QUANTITY" before
\* "qty", revenue from "PRICE "
C8_Witness ==
    /\ normPc = "server"
    /\ Cell(rawRow, <<" ", "D", "A", "T", "E", " ">>) = <<"0", "1", "/", "0", "2", "/", "2", "0", "2", "6">>
    /\ Cell(rawRow, <<" ", "Q", "U", "A", "N", "T", "I", "T", "Y">>) = <<"1", "0">>
    /\ Cell(rawRow, t_qty) = <<"7">>
    /\ Cell(rawRow, <<"P", "R", "I", "C", "E", " ">>) = <<"$", "1", ",", "2", "0", "0">>
    /\ \E i \in 1..Len(rawRow) : rawRow[i] = <<<<"P", "R", "O", "D", "U", "C", "T">>, <<>>>>
    /\ normOut.date.text = <<"0", "1", "/", "0", "2", "/", "2", "0", "2", "6">>
    /\ normOut.product = t_Unknown
    /\ normOut.quantity = Rat(10, 1)
    /\ normOut.revenue = Rat(1200, 1)

----------------------------------------------------------------------------
(* C9, C10: the analytics *)

\* the sum of a sequence of numbers
SumOf(values) ==
    LET sum[n \in 0..Len(values)] ==
            IF n = 0 THEN Zero ELSE NumAdd(sum[n - 1], values[n])
    IN  sum[Len(values)]

\* the quantity and the revenue columns of an array of records or buckets
Quantities(array) == [i \in 1..Len(array) |-> array[i].quantity]

Revenues(array) == [i \in 1..Len(array) |-> array[i].revenue]

\* C9: for every non-empty record set, totalQuantity equals the sum of
\* quantity over the date buckets and over the product buckets, and so does
\* totalRevenue: neither grouping loses a record or counts one twice.  (The
\* product buckets are read off topProducts, which holds every one of them
\* when the records are no more than TopN.)
C9_TotalsMatchBuckets ==
    (anaPc = "done" /\ anaData.present /\ Len(anaData.items) > 0) =>
        /\ anaOut.totalQuantity = SumOf(Quantities(anaOut.dailyStats))
        /\ anaOut.totalRevenue = SumOf(Revenues(anaOut.dailyStats))
        /\ Len(anaData.items) <= TopN =>
               /\ anaOut.totalQuantity = SumOf(Quantities(anaOut.topProducts))
               /\ anaOut.totalRevenue = SumOf(Revenues(anaOut.topProducts))

\* C10: calculateAnalytics returns avgQuantity = totalQuantity / count and
\* avgRevenue = totalRevenue / count when count > 0; for an empty or missing
\* input it returns totals and averages of 0, a dateRange of nulls and empty
\* topProducts and dailyStats.
C10_AveragesAndEmptyResult ==
    anaPc = "done" =>
        /\ (anaData.present /\ Len(anaData.items) > 0) =>
              /\ anaOut.totalQuantity = SumOf(Quantities(anaData.items))
              /\ anaOut.totalRevenue = SumOf(Revenues(anaData.items))
              /\ anaOut.avgQuantity.k = "fin"
              /\ anaOut.avgQuantity.n * Len(anaData.items) * anaOut.totalQuantity.d
                    = anaOut.totalQuantity.n * anaOut.avgQuantity.d
              /\ anaOut.avgRevenue.k = "fin"
              /\ anaOut.avgRevenue.n * Len(anaData.items) * anaOut.totalRevenue.d
                    = anaOut.totalRevenue.n * anaOut.avgRevenue.d
        /\ (~anaData.present \/ Len(anaData.items) = 0) =>
              /\ anaOut.totalQuantity = Zero /\ anaOut.totalRevenue = Zero
              /\ anaOut.avgQuantity = Zero /\ anaOut.avgRevenue = Zero
              /\ anaOut.avgPricePerUnit = Zero
              /\ anaOut.dateRange = [start |-> NullValue, end |-> NullValue]
              /\ anaOut.topProducts = <<>>
              /\ anaOut.dailyStats = <<>>

\* the averages of the two records of the documentation's example: 25 / 2
\* and 3000 / 2
C10_Witness ==
    /\ anaPc = "done"
    /\ Len(anaData.items) = 2
    /\ anaOut.totalQuantity = Rat(25, 1)
    /\ anaOut.avgQuantity = Rat(25, 2)
    /\ anaOut.avgRevenue = Rat(1500, 1)

----------------------------------------------------------------------------
(* C11 .. C17: the upload, from the file to the answer *)

\* the answer to a finished request
LastResponse == responses[Len(responses)]

Succeeded ==
    upSide = "server" /\ upPc = "ended" /\ responses # <<>> /\ LastResponse.status = 200

\* out is num / den when den > 0, and 0 when it is not
GuardedRatio(out, num, den) ==
    IF NumLess(Zero, den)
    THEN /\ out.k = "fin"
         /\ out.n * den.n * num.d = num.n * den.d * out.d
    ELSE out = Zero

\* out is total / count, count being positive
AverageOf(out, total, count) ==
    /\ count > 0
    /\ total.k = "fin" => /\ out.k = "fin"
                          /\ out.n * count * total.d = total.n * out.d

\* C11: no ratio is evaluated with a zero denominator: every record's
\* unitPrice, every product's avgRevenuePerUnit and avgPricePerUnit are
\* revenue / quantity when the quantity is positive and 0 otherwise, and the
\* averages per record, of the server's analytics and of the client's summary,
\* exist only for a positive record count.
C11_RatiosGuarded ==
    /\ \A i \in 1..Len(results) :
           GuardedRatio(results[i].unitPrice, results[i].revenue, results[i].quantity)
    /\ \A i \in 1..Len(responses) :
           IF responses[i].status = 200
           THEN /\ GuardedRatio(responses[i].analytics.avgPricePerUnit,
                                responses[i].analytics.totalRevenue,
                                responses[i].analytics.totalQuantity)
                /\ \A j \in 1..Len(responses[i].analytics.topProducts) :
                       GuardedRatio(responses[i].analytics.topProducts[j].avgRevenuePerUnit,
                                    responses[i].analytics.topProducts[j].revenue,
                                    responses[i].analytics.topProducts[j].quantity)
                /\ AverageOf(responses[i].analytics.avgQuantity,
                             responses[i].analytics.totalQuantity, responses[i].records)
                /\ AverageOf(responses[i].analytics.avgRevenue,
                             responses[i].analytics.totalRevenue, responses[i].records)
           ELSE Len(results) = 0 \/ upPc = "failed"
    /\ summary.shown =>
           /\ AverageOf(summary.avgQuantity, summary.totalQuantity, Len(salesData))
           /\ AverageOf(summary.avgRevenue, summary.totalRevenue, Len(salesData))

\* the server has answered an upload whose quantities add up to 0 and whose
\* revenues do not
C11_Witness ==
    /\ Succeeded
    /\ LastResponse.analytics.totalQuantity = Zero
    /\ LastResponse.analytics.totalRevenue = Rat(50, 1)
    /\ LastResponse.analytics.avgPricePerUnit = Zero

\* the rows the stream has emitted that raised, and those that did not
Failed == SelectSeq(SubSeq(upFile.rows, 1, upPos), LAMBDA row : row.error # "")

Survived == SelectSeq(SubSeq(upFile.rows, 1, upPos), LAMBDA row : row.error = "")

\* C15: a row that fails in the 'data' handler of /upload contributes no
\* record and one readable warning, the rows after it are still processed,
\* and the batch is answered as a success, hasWarnings true and the warnings
\* in the metadata, whenever at least one row produced a record.
C15_RowErrorsAreWarnings ==
    (upSide = "server" /\ upPc \in {"streaming", "ended"}) =>
        /\ Len(results) = Len(Survived)
        /\ errorMessages =
               [i \in 1..Len(Failed) |->
                   [text |-> "Error parsing row: ", detail |-> Failed[i].error]]
        /\ hasErrors = (Failed # <<>>)
        /\ upPc = "ended" =>
               /\ upPos = Len(upFile.rows)
               /\ Survived # <<>> =>
                      /\ LastResponse.status = 200
                      /\ LastResponse.success
                      /\ LastResponse.records = Len(Survived)
                      /\ LastResponse.metadata.hasWarnings = (Failed # <<>>)
                      /\ LastResponse.metadata.warnings = errorMessages

\* a row has failed, the row after it has given a record, and the answer is
\* a success with one warning
C15_Witness ==
    /\ Succeeded
    /\ Len(upFile.rows) = 2
    /\ upFile.rows[1].error # "" /\ upFile.rows[2].error = ""
    /\ LastResponse.records = 1
    /\ LastResponse.metadata.hasWarnings
    /\ Len(LastResponse.metadata.warnings) = 1

\* C16: an upload that yields no record is rejected whole: the server
\* answers once, with an error status and neither data nor analytics, and
\* the client reports 'No valid data found' or 'CSV file is empty' and draws
\* no chart.
C16_EmptyBatchRejected ==
    /\ (upSide = "server" /\ upPc = "ended" /\ Len(results) = 0) =>
           /\ Len(responses) = 1
           /\ LastResponse.status = 400
           /\ LastResponse.error = "No valid data found in CSV file"
           /\ DOMAIN LastResponse \cap {"data", "analytics"} = {}
    /\ (upSide = "client" /\ upPc = "ended" /\ upFile.present /\ Len(salesData) = 0) =>
           /\ alerts \in {<<"No valid data found in CSV file.">>,
                          <<"Error processing CSV file: CSV file is empty">>}
           /\ charts = <<>>
           /\ ~summary.shown

\* the only row of an upload has failed and the server has refused the batch
C16_Witness ==
    /\ upSide = "server" /\ upPc = "ended"
    /\ Len(upFile.rows) = 1
    /\ results = <<>>
    /\ LastResponse.status = 400
    /\ Len(LastResponse.details) = 1

\* the two rows of the worked example, under the headers Date, Quantity, Revenue
C17_Rows ==
    <<Row(<<<<"0", "1", "/", "0", "1", "/", "2", "0", "2", "6">>, <<"1", "0">>, <<"1", "2", "0", "0">>>>), Row(<<<<"0", "1", "/", "0", "2", "/", "2", "0", "2", "6">>, <<"1", "5">>, <<"1", "8", "0", "0">>>>)>>

\* C17: through the server's pipeline the two rows of the worked example give
\* totalQuantity 25, totalRevenue 3000, a date range from 1 January 2026 to
\* 1 February 2026 (day first), two date buckets and summary.records = 2.
C17_WorkedExample ==
    (/\ upSide = "server" /\ upPc = "ended"
     /\ upFile.present /\ upFile.headers = UpHeaders3 /\ upFile.rows = C17_Rows) =>
        /\ Len(responses) = 1
        /\ LastResponse.status = 200
        /\ LastResponse.analytics.totalQuantity = Rat(25, 1)
        /\ LastResponse.analytics.totalRevenue = Rat(3000, 1)
        /\ LastResponse.analytics.dateRange.start = StringValue(<<"2", "0", "2", "6", "-", "0", "1", "-", "0", "1", "T", "0", "0", ":", "0", "0", ":", "0", "0", ".", "0", "0", "0", "Z">>)
        /\ LastResponse.analytics.dateRange.end = StringValue(<<"2", "0", "2", "6", "-", "0", "2", "-", "0", "1", "T", "0", "0", ":", "0", "0", ":", "0", "0", ".", "0", "0", "0", "Z">>)
        /\ Len(LastResponse.analytics.dailyStats) = 2
        /\ LastResponse.analytics.summary.records = 2
        /\ LastResponse.analytics.summary.days = 2

\* the two rows have been streamed and the server has answered
C17_Witness ==
    /\ upSide = "server" /\ upPc = "ended"
    /\ upFile.headers = UpHeaders3 /\ upFile.rows = C17_Rows
    /\ Len(results) = 2
    /\ LastResponse.status = 200

----------------------------------------------------------------------------
(* C25: the sort before the analytics *)

\* the two arrays hold the same records the same number of times
SameRecords(sorted, records) ==
    /\ Len(sorted) = Len(records)
    /\ \A i \in 1..Len(sorted) :
           Cardinality({k \in 1..Len(sorted) : sorted[k] = sorted[i]})
               = Cardinality({k \in 1..Len(records) : records[k] = sorted[i]})

\* the times are in non-decreasing order
NonDecreasing(times) ==
    \A i, j \in 1..Len(times) : i < j => ~NumLess(times[j], times[i])

\* the records the server's 'data' handler makes of the rows that did not fail
NormalizedRows ==
    [i \in 1..Len(Survived) |-> serverRecord(RowObject(upFile.headers, Survived[i].cells))]

\* the rows the client's parseCSVText makes and keeps, in the order of the file
ProcessedRows ==
    SelectSeq([i \in 1..Len(upFile.rows) |->
                  processedRow(RowObject(upFile.headers, upFile.rows[i].cells))],
              clientKeeps)

\* C25: before the analytics run, the records are sorted into non-decreasing
\* order of parsed date, and the sorted sequence is a permutation of the
\* normalized records: none added, dropped or altered.  This holds for the
\* 'end' handler of the server's /upload, whose answer carries the sorted
\* records, and for the client's parseCSVText.
C25_SortedPermutation ==
    /\ (upSide = "server" /\ upPc = "ended") =>
           /\ NonDecreasing([i \in 1..Len(results) |-> parseDate(results[i].date.text)])
           /\ \A records \in {NormalizedRows} : SameRecords(results, records)
           /\ LastResponse.status = 200 => LastResponse.data = results
    /\ (upSide = "client" /\ upPc = "ended" /\ upFile.present /\ upFile.header) =>
           /\ NonDecreasing([i \in 1..Len(salesData) |-> salesData[i].date.time])
           /\ \A records \in {ProcessedRows} : SameRecords(salesData, records)

\* the server has put the row of 1 January before the row of 1 February that
\* arrived first
C25_Witness ==
    /\ upSide = "server" /\ upPc = "ended"
    /\ Len(upFile.rows) = 2
    /\ upFile.rows[1].cells[1] = <<"0", "1", "/", "0", "2", "/", "2", "0", "2", "6">>
    /\ upFile.rows[2].cells[1] = <<"0", "1", "/", "0", "1", "/", "2", "0", "2", "6">>
    /\ Len(results) = 2
    /\ results[1].date.text = <<"0", "1", "/", "0", "1", "/", "2", "0", "2", "6">>
    /\ results[2].date.text = <<"0", "1", "/", "0", "2", "/", "2", "0", "2", "6">>

----------------------------------------------------------------------------
(* C12, C13: the date range and the top products *)

Analysed == anaPc = "done" /\ anaData.present /\ Len(anaData.items) > 0

\* the parsed dates of the records, the epoch sentinel left out
RealDates(items) ==
    {parseDate(items[i].date.text) : i \in 1..Len(items)} \ {Epoch}

\* C12: dateRange.start and dateRange.end are the earliest and the latest of
\* the records' parsed dates other than the epoch sentinel, whatever their
\* year, and both are null exactly when no record has such a date.
C12_DateRangeOverRealDates ==
    Analysed =>
        IF RealDates(anaData.items) = {}
        THEN anaOut.dateRange = [start |-> NullValue, end |-> NullValue]
        ELSE /\ anaOut.dateRange.start =
                    StringValue(ToISOString(MinTime(RealDates(anaData.items))))
             /\ anaOut.dateRange.end =
                    StringValue(ToISOString(MaxTime(RealDates(anaData.items))))

\* the revenue of a product: the sum over its records
RevenueOf(items, product) ==
    SumOf(Revenues(SelectSeq(items, LAMBDA item : productKey(item) = product)))

Listed(product) ==
    \E j \in 1..Len(anaOut.topProducts) : anaOut.topProducts[j].product = product

\* C13: topProducts has at most 10 entries, in the order of non-increasing
\* revenue, and holds the products of the highest revenue: a product left out
\* has a revenue no higher than any listed entry's.
C13_TopProductsHighest ==
    Analysed =>
        /\ Len(anaOut.topProducts) <= TopN
        /\ \A i, j \in 1..Len(anaOut.topProducts) :
               i < j => ~NumLess(anaOut.topProducts[i].revenue,
                                 anaOut.topProducts[j].revenue)
        /\ \A i \in 1..Len(anaData.items) :
               \/ Listed(productKey(anaData.items[i]))
               \/ \A j \in 1..Len(anaOut.topProducts) :
                      ~NumLess(anaOut.topProducts[j].revenue,
                               RevenueOf(anaData.items, productKey(anaData.items[i])))

----------------------------------------------------------------------------
(* C22, C23: the date buckets *)

\* the calendar day a record's date parses to
DayOf(item) == CivilOf(parseDate(item.date.text))

\* the calendar days of the records of an array, in the array's order
DaysOf(items) == [i \in 1..Len(items) |-> DayOf(items[i])]

\* the records of the array whose day is the given one
OfDay(items, days, day) ==
    [k \in 1..Cardinality({i \in 1..Len(items) : days[i] = day}) |->
        items[CHOOSE i \in 1..Len(items) :
                 /\ days[i] = day
                 /\ Cardinality({h \in 1..i : days[h] = day}) = k]]

\* the bucket holds the given records, no more and no less
BucketHolds(bucket, records) ==
    /\ bucket.transactions = Len(records)
    /\ bucket.quantity = SumOf(Quantities(records))
    /\ bucket.revenue = SumOf(Revenues(records))

\* there is one bucket per day of the array, labelled with its key, and the
\* bucket of every record holds exactly the records of its day
BucketsByDay(buckets, items, days, keys) ==
    /\ Len(buckets) = Cardinality({days[i] : i \in 1..Len(items)})
    /\ \A j, k \in 1..Len(buckets) : buckets[j].date = buckets[k].date => j = k
    /\ \A j \in 1..Len(buckets) : \E i \in 1..Len(items) : buckets[j].date = keys[i]
    /\ \A i \in 1..Len(items) :
           \A records \in {OfDay(items, days, days[i])} :
               \E j \in 1..Len(buckets) :
                   /\ buckets[j].date = keys[i]
                   /\ BucketHolds(buckets[j], records)

\* C22: calculateAnalytics makes one date bucket per distinct calendar day of
\* the records' parsed dates: records share a bucket exactly when their dates
\* parse to the same day, each bucket's key is its displayed label, and
\* summary.days is the number of distinct parsed days.
C22_OneBucketPerDay ==
    Analysed =>
        /\ \A days \in {DaysOf(anaData.items)} :
               \A keys \in {[i \in 1..Len(anaData.items) |-> dateKey(anaData.items[i])]} :
                   BucketsByDay(anaOut.dailyStats, anaData.items, days, keys)
        /\ anaOut.summary.days = Len(anaOut.dailyStats)

\* two records of 5 January 2026, one at midnight and one at 10:00, are in
\* one bucket and a record of another day is in a second one
C22_Witness ==
    /\ Analysed
    /\ Len(anaData.items) = 3
    /\ DayOf(anaData.items[1]) = DayOf(anaData.items[2])
    /\ parseDate(anaData.items[1].date.text) # parseDate(anaData.items[2].date.text)
    /\ DayOf(anaData.items[3]) # DayOf(anaData.items[1])
    /\ Len(anaOut.dailyStats) = 2
    /\ \E j \in 1..2 : anaOut.dailyStats[j].transactions = 2

\* the day number of the day a record's date parses to
DayNumber(item) == parseDate(item.date.text).n \div HoursPerDay

\* the buckets are in the order of the days of the records they hold
AscendingDays(buckets, items, numbers, keys) ==
    \A j, k \in 1..Len(buckets) :
        j < k => \A a, b \in 1..Len(items) :
                     (keys[a] = buckets[j].date /\ keys[b] = buckets[k].date)
                         => numbers[a] <= numbers[b]

\* C23: the dailyStats returned by calculateAnalytics are in ascending order
\* of the buckets' actual calendar days, for every input: of two buckets the
\* one of the earlier day comes first.
C23_DailyStatsAscending ==
    Analysed =>
        \A numbers \in {[i \in 1..Len(anaData.items) |-> DayNumber(anaData.items[i])]} :
            \A keys \in {[i \in 1..Len(anaData.items) |-> dateKey(anaData.items[i])]} :
                AscendingDays(anaOut.dailyStats, anaData.items, numbers, keys)

----------------------------------------------------------------------------
(* C14: the moving average *)

\* the quantity of the bucket at an index, 0 outside the sequence
BucketQuantity(buckets, i) ==
    IF i \in 1..Len(buckets) THEN buckets[i].quantity ELSE Zero

\* avg is (a + b + c) / 3
ThirdOfSum(avg, a, b, c) ==
    /\ avg.k = "fin"
    /\ 3 * avg.n * NumAdd(NumAdd(a, b), c).d = NumAdd(NumAdd(a, b), c).n * avg.d

AscendingBuckets(buckets, sales) ==
    \A j, k \in 1..Len(buckets) :
        j < k => \A a, b \in 1..Len(sales) :
                     (/\ localeDate(sales[a]) = buckets[j].key
                      /\ localeDate(sales[b]) = buckets[k].key
                      /\ ~IsNaN(DateParse(sales[a].date))
                      /\ ~IsNaN(DateParse(sales[b].date)))
                         => NumLess(DateParse(sales[a].date), DateParse(sales[b].date))

\* C24: performAnalytics gives one moving-average point per date bucket, in
\* the order of the buckets, and that order is date-ascending whatever the
\* order in which the sales arrive, so that the neighbours averaged at an
\* index are the buckets of the adjacent dates.
C24_PointsInDateOrder ==
    mvPc = "done" =>
        /\ [i \in 1..Len(mvOut.predictions) |-> mvOut.predictions[i].date]
               = [i \in 1..Len(mvOut.aggregatedData) |-> mvOut.aggregatedData[i].key]
        /\ AscendingBuckets(mvOut.aggregatedData, mvData)

----------------------------------------------------------------------------
(* C26: concurrent uploads *)

\* the rows of a file that raise in the 'data' handler, and those that do not
RaisingOf(rows) == SelectSeq(rows, LAMBDA row : row.error # "")

PassingOf(rows) == SelectSeq(rows, LAMBDA row : row.error = "")

\* what the 'end' handler answers for a file processed alone
AnswerFor(rows) ==
    endResponse(sortedResults([i \in 1..Len(PassingOf(rows)) |->
                    serverRecord(RowObject(UpHeaders3, PassingOf(rows)[i].cells))]),
                RaisingOf(rows) # <<>>,
                [i \in 1..Len(RaisingOf(rows)) |-> warning(RaisingOf(rows)[i].error)])

\* C26: for any interleaving of the 'data', 'end' and 'error' events of
\* concurrent /upload requests, each request reads and answers from its own
\* rows only: no row, warning or aggregate of another upload is in its
\* result.
C26_RequestsIndependent ==
    \A r \in Requests :
        /\ requests[r].pc = "streaming" => requests[r].rows = OwnRows(r)
        /\ requests[r].pc = "ended" => requests[r].responses = <<AnswerFor(OwnRows(r))>>

----------------------------------------------------------------------------
(* C27 .. C29: the life of one upload request *)

\* the statuses of the three answers of the handler
AnswerStatuses == {200, 400, 500}

\* at most one answer was sent, and it is one of the three
AtMostOneAnswer ==
    /\ Len(responses) <= 1
    /\ \A i \in 1..Len(responses) : responses[i].status \in AnswerStatuses

C28_RowsAccounted ==
    upSide = "server" =>
        /\ upPc \in {"streaming", "ended", "failed"} =>
               Len(results) + Len(errorMessages) = upPos
        /\ upPc = "ended" =>
               /\ upPos = Len(upFile.rows)
               /\ responses[1].status = 200 =>
                      /\ responses[1].data = results
                      /\ responses[1].metadata.records = Len(responses[1].data)
                      /\ Len(responses[1].data) + Len(responses[1].metadata.warnings)
                             = upPos
               /\ responses[1].status = 400 =>
                      /\ results = <<>>
                      /\ Len(responses[1].details) = upPos

\* three rows were received: two are records of the success response and
\* one is a warning
C28_Witness ==
    /\ upSide = "server" /\ upPc = "ended"
    /\ upPos = 3
    /\ responses[1].status = 200
    /\ responses[1].metadata.records = 2
    /\ Len(responses[1].metadata.warnings) = 1

\* C29: for every /upload request that stored a temporary file, the
\* deletion of that file is eventually attempted whatever the outcome of
\* the processing (success, rejection of an empty batch, or an error of the
\* CSV parser), and it is attempted at most once.
C29_TempFileDeleted ==
    /\ [](unlinks <= 1)
    /\ (upSide = "server" /\ upFile.present => <>(unlinks = 1))

====
